---------------------------- MODULE Spec2Model ----------------------------
(***************************************************************************)
(* The Windows route-policy redirector of aad-pod-identity's NMI:          *)
(*   pkg/nmi/server/endpointpolicy.go    Apply/DeleteEndpointRoutePolicy,  *)
(*                                       getEndpointByIP (the locator),    *)
(*                                       add/deleteEndpointPolicy (the     *)
(*                                       editor), callHcnProxyAgent (the   *)
(*                                       gateway)                          *)
(*   pkg/nmi/server/redirector_windows.go  Sync (the reconciliation loop)  *)
(* Function calls are modelled with an explicit call stack of frames; the  *)
(* locals of a function are variables named after it.                      *)
(***************************************************************************)
EXTENDS Integers, Sequences, FiniteSets, TLC

VARIABLES
    hns,            \* the HNS backend: endpoint id -> [present, Policies]
    MetadataIP,     \* server.MetadataIP
    stack,          \* call stack, innermost frame first
    Initialized,    \* server.Initialized
    signalChan,     \* a SIGTERM/SIGINT is pending on signalChan
    mainRoutineDone,\* mainRoutineDone has been closed
    nEvents,        \* pod events received from PodObjChannel so far
    listPods,       \* how many pods of listPods the range loop has yet to visit
    exitCode,       \* DeleteRoutePolicyForExistingPods' exitCode
    exited,         \* the code given to os.Exit, or NotExited
    podIP,          \* Apply/DeleteEndpointRoutePolicy's podIP
    endpoint,       \* the endpoint getEndpointByIP returned to Apply/Delete
    locRetryCount,  \* getEndpointByIP's retryCount
    locSleepFactor, \* getEndpointByIP's sleepFactor
    req,            \* callHcnProxyAgent's req
    retryCount,     \* callHcnProxyAgent's retryCount
    sleepFactor,    \* callHcnProxyAgent's sleepFactor
    gwRet,          \* what callHcnProxyAgent returned, until its caller reads it
    locRet,         \* what getEndpointByIP returned, until its caller reads it
    opRet,          \* what Apply/DeleteEndpointRoutePolicy returned, until read
    hist,           \* observations of the run (calls made, sleeps, attempts)
    podMap,         \* the map-based redirector's podMap: pod UID -> IP
    ticks,          \* ticks of the ruleset redirector's ticker so far
    chain,          \* whether the custom iptables chain is installed
    nodeTaints,     \* Spec.Taints of this node at the API server
    probe,          \* the /healthz handler in progress, or its response
    gw              \* per concurrent caller, its callHcnProxyAgent's locals

vars == <<hns, MetadataIP, stack, Initialized, signalChan, mainRoutineDone,
          nEvents, listPods, exitCode, exited, podIP, endpoint, locRetryCount,
          locSleepFactor, req, retryCount, sleepFactor, gwRet, locRet, opRet,
          hist, podMap, ticks, chain, nodeTaints, probe, gw>>

\* what the redirector of pkg/nmi/server/redirector_windows.go and the
\* operations of endpointpolicy.go never touch
ext == <<podMap, ticks, chain, nodeTaints, probe, gw>>

---------------------------------------------------------------------------
(* Bounds of the model. *)

\* longest policy collection an endpoint starts with in SpecEditor
MaxPolicies == 5
\* longest pod listing ListPods returns
MaxPods == 2
\* pod events delivered on PodObjChannel in one run
MaxEvents == 2
\* calls the test driver of SpecOps makes in one run
MaxCalls == 2
\* ticks of the ruleset redirector's ticker in one run
MaxTicks == 3
\* /healthz requests handled in one run
MaxProbes == 3
\* most taints the node carries when the process starts
MaxTaints == 2
\* changes others make to the node's taints in one run
MaxNodeChanges == 1

---------------------------------------------------------------------------
(* Values. *)

InvalidOperation == "InvalidOperation"
NotFound == "NotFound"
UnKnown == "UnKnown"

Nil == "nil"
NoField == "<absent>"
\* exited while the process runs (no exit code)
NotExited == 0 - 1

IMDS == "169.254.169.254"
OtherTarget == "10.96.0.1"
Addrs == {IMDS, OtherTarget}

NodeName == "node-1"
OtherNode == "node-2"
HostIP == "10.0.0.1"
PodIP1 == "10.0.0.5"
PodIP2 == "10.0.0.6"

\* the error the raw backend call returns at the n-th attempt of a
\* callHcnProxyAgent (errors of different attempts are different values)
BackendError(n) == [attempt |-> n]
NoError == [attempt |-> 0]
MissingIP == "Missing IP Address"
\* json.Unmarshal's error for a response that is no endpoint list
Malformed == [attempt |-> 0 - 1]

\* A policy entry (a json.RawMessage) is described by what decoding it into a
\* v1.ProxyPolicy does: ok = json.Unmarshal returns no error, ip = the value
\* of its "IP" field (NoField when the entry has none).
\*   [ok |-> TRUE,  ip |-> a]        a proxy policy for target address a
\*   [ok |-> TRUE,  ip |-> NoField]  another policy type (ACL, ROUTE, ...)
\*   [ok |-> FALSE, ip |-> a]        an object with "IP": a and a field of the
\*                                   wrong JSON type (UnmarshalTypeError)
\*   [ok |-> FALSE, ip |-> NoField]  not a JSON object
PolicyEntries == [ok : BOOLEAN, ip : Addrs \cup {NoField}]

ProxyPolicy(ip) == [ok |-> TRUE, ip |-> ip]

SeqsUpTo(S, n) == UNION {[1..k -> S] : k \in 0..n}

RECURSIVE CountOf(_, _)
CountOf(s, e) ==
    IF s = <<>> THEN 0
    ELSE (IF Head(s) = e THEN 1 ELSE 0) + CountOf(Tail(s), e)

---------------------------------------------------------------------------
(* json.Unmarshal(p, &proxyPolicy): the decoder writes the fields the entry *)
(* has and leaves the others as they were; a field of the wrong type makes  *)
(* it return an error after the other fields have been stored.              *)

Unmarshal(p, proxyPolicyIP) ==
    [err |-> ~p.ok,
     IP  |-> IF p.ip = NoField THEN proxyPolicyIP ELSE p.ip]

\* append(endpointPolicies[:index], endpointPolicies[index+1:]...) on the
\* shared backing array: the elements after index (0-based) move one place
\* left within the first n elements; the array keeps its length.
RemoveAt(arr, n, index) ==
    [j \in 1..Len(arr) |->
        IF j >= index + 1 /\ j < n THEN arr[j + 1] ELSE arr[j]]

\* The range loop of updateEndpointPolicies from (1-based) position i on:
\* arr is the backing array that policies and endpointPolicies share, n the
\* length of endpointPolicies, ip the IP field of the proxyPolicy variable
\* that is declared outside the loop.
RECURSIVE updateLoop(_, _, _, _, _, _)
updateLoop(arr, n, i, count, ip, metadataIP) ==
    IF i > Len(arr) THEN SubSeq(arr, 1, n)
    ELSE LET d == Unmarshal(arr[i], ip)
         IN  IF ~d.err /\ d.IP = metadataIP
             THEN updateLoop(RemoveAt(arr, n, (i - 1) - (count + 1)),
                             n - 1, i + 1, count + 1, d.IP, metadataIP)
             ELSE updateLoop(arr, n, i + 1, count, d.IP, metadataIP)

\* variant: proxyPolicy still holds the target address when the scan starts
updateEndpointPoliciesStale(policies, metadataIP) ==
    updateLoop(policies, Len(policies), 1, -1, metadataIP, metadataIP)

updateEndpointPolicies(policies, metadataIP) ==
    updateLoop(policies, Len(policies), 1, -1, "", metadataIP)


---------------------------------------------------------------------------
(* The HNS backend behind InvokeHNSRequestFunc.  An endpoint is            *)
(* [Id, IPAddress, Policies]; the backend holds one per id and may not     *)
(* show an endpoint yet.                                                   *)

EndpointOrder == <<"ep-1", "ep-2">>
EndpointIds == {EndpointOrder[i] : i \in 1..Len(EndpointOrder)}
EndpointIP(id) == IF id = "ep-1" THEN PodIP1 ELSE PodIP2

NoEndpoint == [Id |-> Nil, IPAddress |-> "", Policies |-> <<>>]

Enumerate == "Enumerate"
Modify == "Modify"

\* the endpoints an Enumerate shows, as the JSON list of the response
RECURSIVE EndpointsFrom(_, _)
EndpointsFrom(h, i) ==
    IF i > Len(EndpointOrder) THEN <<>>
    ELSE LET id == EndpointOrder[i]
         IN  (IF h[id].present
              THEN <<[Id |-> id, IPAddress |-> EndpointIP(id),
                      Policies |-> h[id].Policies]>>
              ELSE <<>>) \o EndpointsFrom(h, i + 1)

\* a Modify replaces the policy collection of the endpoint it names
ModifyEndpoint(h, ep) ==
    IF ep.Id \in EndpointIds
    THEN [h EXCEPT ![ep.Id] = [present |-> TRUE, Policies |-> ep.Policies]]
    ELSE h

NoResponse == [valid |-> FALSE, endpoints |-> <<>>]

\* What the n-th raw request of a callHcnProxyAgent can come back with: an
\* error, or the operation's result (for an Enumerate also a payload that is
\* no endpoint list).
InvokeHNSRequest(r, h, n) ==
    {[Error |-> BackendError(n), Response |-> NoResponse, hns |-> h]}
    \cup
    (IF r.Operation = Enumerate
     THEN {[Error |-> NoError, hns |-> h,
            Response |-> [valid |-> TRUE, endpoints |-> EndpointsFrom(h, 1)]],
           [Error |-> NoError, hns |-> h, Response |-> NoResponse]}
     ELSE {[Error |-> NoError, hns |-> ModifyEndpoint(h, r.Request),
            Response |-> [valid |-> TRUE, endpoints |-> <<>>]]})

\* callHcnProxyAgentInternal: the error, or the response's payload
callHcnProxyAgentInternal(res) ==
    IF res.Error # NoError
    THEN [response |-> NoResponse, err |-> res.Error]
    ELSE [response |-> res.Response, err |-> NoError]

---------------------------------------------------------------------------
(* Pods. *)

Pods ==
    {[NodeName |-> NodeName, PodIP |-> ip] : ip \in {"", HostIP, PodIP1, PodIP2}}
    \cup {[NodeName |-> OtherNode, PodIP |-> PodIP2]}

NoPod == [NodeName |-> Nil, PodIP |-> ""]

\* Sync's test of a pod event
eventInScope(pod) ==
    pod.PodIP # "" /\ NodeName = pod.NodeName /\ HostIP # pod.PodIP

\* variant: the test of a listed pod without the host-IP condition
listedInScopeAnyIP(podItem) ==
    podItem.NodeName = NodeName /\ podItem.PodIP # ""

\* ApplyRoutePolicyForExistingPods' test of a listed pod
listedInScope(podItem) ==
    podItem.NodeName = NodeName /\ podItem.PodIP # "" /\ podItem.PodIP # HostIP

\* variant: the teardown skips the pods the reconciliation skips
listedOnNodeWithIP(podItem) ==
    podItem.NodeName = NodeName /\ podItem.PodIP # "" /\ podItem.PodIP # HostIP

\* DeleteRoutePolicyForExistingPods' test of a listed pod
listedOnNode(podItem) == podItem.NodeName = NodeName

\* the three tests a pod of a listing or of an event is put to
PassesTests(pod) ==
    pod.NodeName = NodeName /\ pod.PodIP # "" /\ pod.PodIP # HostIP

\* server.PodClient.ListPods(): an error (and no pods), or a listing of n
\* pods; which pod stands at a position is drawn when the range loop over
\* the listing reaches it.
ListPods ==
    {[err |-> TRUE, n |-> 0]} \cup {[err |-> FALSE, n |-> n] : n \in 0..MaxPods}

---------------------------------------------------------------------------
(* Observations. *)

NoErr == [text |-> Nil, cause |-> NoError]
NoRet == [done |-> FALSE]

\* of the callHcnProxyAgent in progress or just returned: the raw attempts
\* made, how many failed, the sleeps between them, the last raw result
GatewayHist ==
    [gwAttempts |-> 0, gwFails |-> 0, gwSleeps |-> <<>>,
     gwLast |-> [response |-> NoResponse, err |-> NoError]]

\* of the getEndpointByIP in progress or just returned: the calls of
\* callHcnProxyAgent made, whether each endpoint list that came back held an
\* endpoint with the IP, the sleeps between the calls
OpHist ==
    GatewayHist @@ [locEnums |-> 0, locSeen |-> <<>>, locSleeps |-> <<>>]

\* of the pod event being handled or last handled: what its apply returned,
\* the self-heals it triggered, their sleeps and reconciliations
EventHist ==
    [evDone |-> FALSE, evFailed |-> FALSE, evType |-> "",
     heals |-> 0, healSleeps |-> <<>>, healRuns |-> 0]

\* of the teardown: the listing visited so far, the pods a remove was called
\* for, how many removes failed, the sleeps before the exit
TeardownHist ==
    [tdStarted |-> FALSE, tdListErr |-> FALSE, tdListed |-> <<>>,
     tdRemoves |-> <<>>, tdErrs |-> 0, tdGrace |-> <<>>]

\* of the editor run last: which one, the collection it read, the collection
\* it sent, what it returned; and how many applies ran in a row (up to 2)
EditorHist ==
    [edOp |-> Nil, edRead |-> <<>>, edSent |-> <<>>, edErr |-> NoError,
     edStreak |-> 0]

\* of the map-based redirector: the (UID, IP) pairs an apply put a policy in
\* place for and whose entry has not been deleted since
MapHist == [mapApplied |-> {}]

\* of the ruleset redirector: the runs of updateIPTableRulesInternal that
\* returned, the ticks and the mainRoutineDone messages taken, whether
\* DeleteCustomChain was called and whether it failed, the sleeps before the
\* exit
RulesetHist ==
    [rsAsserts |-> 0, rsTicks |-> 0, rsDone |-> 0, rsDeleteCalled |-> FALSE,
     rsDeleteErr |-> FALSE, rsGrace |-> <<>>]

\* of the /healthz handlers: the requests taken, the taints with another key
\* than the probe's that the node was given (at the start and by others),
\* whether every node read and update of the probes so far succeeded, the
\* changes others made
ProbeHist ==
    [prN |-> 0, prOthers |-> <<>>, prAllOk |-> TRUE, prChanges |-> 0]

\* of the run of ApplyRoutePolicyForExistingPods under way: whether its
\* listing failed, how many of the pods visited so far pass the three tests
\* of the range loop, how many applies it has called, how many of them
\* returned an error
ReconcileHist ==
    [raListErr |-> FALSE, raSeen |-> 0, raApplies |-> 0, raErrs |-> 0]

HistInit ==
    [op |-> Nil, pod |-> NoPod, calls |-> 0, phase |-> "startup"]
    @@ OpHist @@ EventHist @@ TeardownHist @@ EditorHist @@ MapHist
    @@ RulesetHist @@ ProbeHist @@ ReconcileHist

\* hist with the fields of record r replaced
Upd(h, r) == r @@ h

---------------------------------------------------------------------------
(* The call stack. *)

Top == Head(stack)
Return == Tail(stack)
Goto(frame) == <<frame>> \o Tail(stack)
Call(callee, frame) == callee \o <<frame>> \o Tail(stack)

\* callHcnProxyAgent's maxRetryCount
maxRetryCount == 4
\* getEndpointByIP's maxRetryCount
locMaxRetryCount == 4
\* the seconds RoutePolicySelfHeal sleeps before it reconciles
selfHealSleep == 10
\* the seconds DeleteRoutePolicyForExistingPods sleeps before it exits
teardownSleep == 10
\* the seconds handleTermination sleeps before it exits
terminationSleep == 10

Min(a, b) == IF a < b THEN a ELSE b

\* the frames and locals of a fresh callHcnProxyAgent(request)
GatewayFrames == <<"callHcnProxyAgent">>
EnumerateRequest == [Operation |-> Enumerate, Request |-> NoEndpoint]
NoRequest == [Operation |-> Nil, Request |-> NoEndpoint]


---------------------------------------------------------------------------
(* callHcnProxyAgent: one step per attempt.                                *)

\* variant: the loop gives up one attempt early
gatewayGivesUpEarly(rc) == rc >= maxRetryCount

\* what the loop does with a failed attempt: give up, or sleep and retry
gatewayGivesUp(rc) == rc > maxRetryCount

\* what callHcnProxyAgent returns when it gives up, and when an attempt
\* succeeds
gatewayFailure(err) == [done |-> TRUE, response |-> NoResponse, err |-> err]
gatewaySuccess(response) ==
    [done |-> TRUE, response |-> response, err |-> NoError]

callHcnProxyAgent ==
    /\ Top = "callHcnProxyAgent"
    /\ \E res \in InvokeHNSRequest(req, hns, hist.gwAttempts + 1) :
        LET r == callHcnProxyAgentInternal(res)
            failed == r.err # NoError
            seen == [gwAttempts |-> hist.gwAttempts + 1,
                     gwFails |-> hist.gwFails + (IF failed THEN 1 ELSE 0),
                     gwLast |-> r]
        IN  /\ hns' = res.hns
            /\ IF failed
               THEN IF gatewayGivesUp(retryCount)
                    THEN /\ gwRet' = gatewayFailure(r.err)
                         /\ stack' = Return
                         /\ hist' = Upd(hist, seen)
                         /\ UNCHANGED <<retryCount, sleepFactor>>
                    ELSE \* time.Sleep(sleepFactor * time.Second)
                         /\ hist' = Upd(hist, seen @@
                              [gwSleeps |-> Append(hist.gwSleeps, sleepFactor)])
                         /\ sleepFactor' = sleepFactor * 2
                         /\ retryCount' = retryCount + 1
                         /\ UNCHANGED <<gwRet, stack>>
               ELSE /\ gwRet' = gatewaySuccess(r.response)
                    /\ stack' = Return
                    /\ hist' = Upd(hist, seen)
                    /\ UNCHANGED <<retryCount, sleepFactor>>
    /\ UNCHANGED <<MetadataIP, Initialized, signalChan, mainRoutineDone,
                   nEvents, listPods, exitCode, exited, podIP, endpoint,
                   locRetryCount, locSleepFactor, req, locRet, opRet>>
    /\ UNCHANGED ext

---------------------------------------------------------------------------
(* getEndpointByIP: one step per enumeration that came back.               *)

\* the first endpoint of the list whose IP address is ip, or NoEndpoint
RECURSIVE scanEndpoints(_, _)
scanEndpoints(endpoints, ip) ==
    IF endpoints = <<>> THEN NoEndpoint
    ELSE IF Head(endpoints).IPAddress = ip THEN Head(endpoints)
    ELSE scanEndpoints(Tail(endpoints), ip)

\* variant: the locator gives up one enumeration early
locatorGivesUpEarly(rc) == rc >= locMaxRetryCount

\* variant: the locator allows itself one enumeration more
locatorGivesUpLate(rc) == rc > locMaxRetryCount + 1

\* whether a no-match enumeration ends the locator
locatorGivesUp(rc) == rc > locMaxRetryCount

\* the locals of a fresh getEndpointByIP(ip) that is in its first
\* callHcnProxyAgent(request)
LocatorFrames == <<"callHcnProxyAgent", "getEndpointByIP">>
LocatorHist ==
    GatewayHist @@ [locEnums |-> 1, locSeen |-> <<>>, locSleeps |-> <<>>]

HasEndpoint(response, ip) ==
    /\ response.valid
    /\ \E i \in 1..Len(response.endpoints) : response.endpoints[i].IPAddress = ip

getEndpointByIP ==
    /\ Top = "getEndpointByIP"
    /\ gwRet.done
    /\ gwRet' = NoRet
    /\ LET found == scanEndpoints(gwRet.response.endpoints, podIP)
           seen == IF gwRet.err = NoError /\ gwRet.response.valid
                   THEN [locSeen |-> Append(hist.locSeen,
                                            HasEndpoint(gwRet.response, podIP))]
                   ELSE [locSeen |-> hist.locSeen]
       IN  IF gwRet.err # NoError
           THEN /\ locRet' = [done |-> TRUE, endpoint |-> NoEndpoint,
                              errType |-> InvalidOperation, err |-> gwRet.err]
                /\ stack' = Return
                /\ hist' = Upd(hist, seen)
                /\ UNCHANGED <<locRetryCount, locSleepFactor, req, retryCount,
                               sleepFactor>>
           ELSE IF ~gwRet.response.valid
           THEN /\ locRet' = [done |-> TRUE, endpoint |-> NoEndpoint,
                              errType |-> InvalidOperation, err |-> Malformed]
                /\ stack' = Return
                /\ hist' = Upd(hist, seen)
                /\ UNCHANGED <<locRetryCount, locSleepFactor, req, retryCount,
                               sleepFactor>>
           ELSE IF found # NoEndpoint
           THEN /\ locRet' = [done |-> TRUE, endpoint |-> found,
                              errType |-> Nil, err |-> NoError]
                /\ stack' = Return
                /\ hist' = Upd(hist, seen)
                /\ UNCHANGED <<locRetryCount, locSleepFactor, req, retryCount,
                               sleepFactor>>
           ELSE IF locatorGivesUp(locRetryCount)
           THEN /\ locRet' = [done |-> TRUE, endpoint |-> NoEndpoint,
                              errType |-> NotFound, err |-> NoError]
                /\ stack' = Return
                /\ hist' = Upd(hist, seen)
                /\ UNCHANGED <<locRetryCount, locSleepFactor, req, retryCount,
                               sleepFactor>>
           ELSE \* time.Sleep(sleepFactor * time.Second), then the next
                \* callHcnProxyAgent(request)
                /\ locSleepFactor' = locSleepFactor * 2
                /\ locRetryCount' = locRetryCount + 1
                /\ req' = EnumerateRequest
                /\ retryCount' = 1
                /\ sleepFactor' = 1
                /\ stack' = GatewayFrames \o stack
                /\ hist' = Upd(hist, seen @@ GatewayHist @@
                             [locEnums |-> hist.locEnums + 1,
                              locSleeps |-> Append(hist.locSleeps,
                                                   locSleepFactor)])
                /\ UNCHANGED locRet
    /\ UNCHANGED <<hns, MetadataIP, Initialized, signalChan, mainRoutineDone,
                   nEvents, listPods, exitCode, exited, podIP, endpoint, opRet>>
    /\ UNCHANGED ext

---------------------------------------------------------------------------
(* The editor: addEndpointPolicy and deleteEndpointPolicy build the Modify *)
(* request from the endpoint they are given.                               *)

addEndpointPolicy(ep, metadataIP) ==
    [Operation |-> Modify,
     Request |-> [ep EXCEPT !.Policies =
                     Append(updateEndpointPolicies(ep.Policies, metadataIP),
                            ProxyPolicy(metadataIP))]]

deleteEndpointPolicy(ep, metadataIP) ==
    [Operation |-> Modify,
     Request |-> [ep EXCEPT !.Policies =
                     updateEndpointPolicies(ep.Policies, metadataIP)]]

---------------------------------------------------------------------------
(* ApplyEndpointRoutePolicy and DeleteEndpointRoutePolicy.                 *)

\* variant: every failure of getEndpointByIP but NotFound is typed UnKnown
locateFailureUnknown(ret) ==
    IF ret.errType = NotFound
    THEN [done |-> TRUE, t |-> "", err |-> NoErr]
    ELSE [done |-> TRUE, t |-> UnKnown,
          err |-> [text |-> "Get endpoint for Pod IP", cause |-> ret.err]]

\* the (error, type) a failed getEndpointByIP becomes; text names the caller
locateFailure(ret) ==
    IF ret.errType = InvalidOperation
    THEN [done |-> TRUE, t |-> InvalidOperation,
          err |-> [text |-> "Get endpoint for Pod IP", cause |-> ret.err]]
    ELSE IF ret.errType = NotFound
    THEN [done |-> TRUE, t |-> "", err |-> NoErr]
    ELSE [done |-> TRUE, t |-> UnKnown,
          err |-> [text |-> "Get endpoint for Pod IP", cause |-> ret.err]]

\* variant: the empty-IP error typed InvalidOperation
missingIPFailureInvalid ==
    [done |-> TRUE, t |-> InvalidOperation,
     err |-> [text |-> MissingIP, cause |-> NoError]]

missingIPFailure ==
    [done |-> TRUE, t |-> NotFound,
     err |-> [text |-> MissingIP, cause |-> NoError]]

\* variant: the error of the Modify is dropped
applyModifyResultDropped(e) == [done |-> TRUE, t |-> "", err |-> NoErr]

\* the (error, type) of a Modify that came back with error e
applyModifyResult(e) ==
    IF e # NoError
    THEN [done |-> TRUE, t |-> UnKnown,
          err |-> [text |-> "Could not add policy", cause |-> e]]
    ELSE [done |-> TRUE, t |-> "", err |-> NoErr]

deleteModifyResult(e) ==
    IF e # NoError
    THEN [done |-> TRUE, t |-> UnKnown,
          err |-> [text |-> "Could't delete policy", cause |-> e]]
    ELSE [done |-> TRUE, t |-> "", err |-> NoErr]

\* entry of either operation: the empty-IP return, or the call of
\* getEndpointByIP; frame is where the operation continues afterwards
OperationEntry(frame) ==
    IF podIP = ""
    THEN /\ opRet' = missingIPFailure
         /\ stack' = Return
         /\ UNCHANGED <<locRetryCount, locSleepFactor, req, retryCount,
                        sleepFactor, hist>>
    ELSE /\ locRetryCount' = 1
         /\ locSleepFactor' = 1
         /\ req' = EnumerateRequest
         /\ retryCount' = 1
         /\ sleepFactor' = 1
         /\ stack' = Call(LocatorFrames, frame)
         /\ hist' = Upd(hist, LocatorHist)
         /\ UNCHANGED opRet

\* after getEndpointByIP: the failure return, or the call of the gateway
\* with the Modify request the editor built; frame is where the operation
\* continues afterwards
OperationLocated(request, frame) ==
    /\ locRet.done
    /\ locRet' = NoRet
    /\ IF locRet.errType # Nil
       THEN /\ opRet' = locateFailure(locRet)
            /\ stack' = Return
            /\ UNCHANGED <<endpoint, req, retryCount, sleepFactor, hist>>
       ELSE /\ endpoint' = locRet.endpoint
            /\ req' = request
            /\ retryCount' = 1
            /\ sleepFactor' = 1
            /\ stack' = Call(GatewayFrames, frame)
            /\ hist' = Upd(hist, GatewayHist)
            /\ UNCHANGED opRet

ApplyEntry ==
    /\ Top = "ApplyEndpointRoutePolicy"
    /\ OperationEntry("ApplyEndpointRoutePolicy.located")
    /\ UNCHANGED <<hns, MetadataIP, Initialized, signalChan, mainRoutineDone,
                   nEvents, listPods, exitCode, exited, podIP, endpoint,
                   gwRet, locRet>>
    /\ UNCHANGED ext

ApplyLocated ==
    /\ Top = "ApplyEndpointRoutePolicy.located"
    /\ OperationLocated(addEndpointPolicy(locRet.endpoint, MetadataIP),
                        "ApplyEndpointRoutePolicy.added")
    /\ UNCHANGED <<hns, MetadataIP, Initialized, signalChan, mainRoutineDone,
                   nEvents, listPods, exitCode, exited, podIP, locRetryCount,
                   locSleepFactor, gwRet>>
    /\ UNCHANGED ext

ApplyAdded ==
    /\ Top = "ApplyEndpointRoutePolicy.added"
    /\ gwRet.done
    /\ gwRet' = NoRet
    /\ opRet' = applyModifyResult(gwRet.err)
    /\ stack' = Return
    /\ UNCHANGED <<hns, MetadataIP, Initialized, signalChan, mainRoutineDone,
                   nEvents, listPods, exitCode, exited, podIP, endpoint,
                   locRetryCount, locSleepFactor, req, retryCount,
                   sleepFactor, locRet, hist>>
    /\ UNCHANGED ext

DeleteEntry ==
    /\ Top = "DeleteEndpointRoutePolicy"
    /\ OperationEntry("DeleteEndpointRoutePolicy.located")
    /\ UNCHANGED <<hns, MetadataIP, Initialized, signalChan, mainRoutineDone,
                   nEvents, listPods, exitCode, exited, podIP, endpoint,
                   gwRet, locRet>>
    /\ UNCHANGED ext

DeleteLocated ==
    /\ Top = "DeleteEndpointRoutePolicy.located"
    /\ OperationLocated(deleteEndpointPolicy(locRet.endpoint, MetadataIP),
                        "DeleteEndpointRoutePolicy.deleted")
    /\ UNCHANGED <<hns, MetadataIP, Initialized, signalChan, mainRoutineDone,
                   nEvents, listPods, exitCode, exited, podIP, locRetryCount,
                   locSleepFactor, gwRet>>
    /\ UNCHANGED ext

DeleteDeleted ==
    /\ Top = "DeleteEndpointRoutePolicy.deleted"
    /\ gwRet.done
    /\ gwRet' = NoRet
    /\ opRet' = deleteModifyResult(gwRet.err)
    /\ stack' = Return
    /\ UNCHANGED <<hns, MetadataIP, Initialized, signalChan, mainRoutineDone,
                   nEvents, listPods, exitCode, exited, podIP, endpoint,
                   locRetryCount, locSleepFactor, req, retryCount,
                   sleepFactor, locRet, hist>>
    /\ UNCHANGED ext

\* the steps of the two operations and of what they call
Operation ==
    \/ ApplyEntry \/ ApplyLocated \/ ApplyAdded
    \/ DeleteEntry \/ DeleteLocated \/ DeleteDeleted
    \/ getEndpointByIP
    \/ callHcnProxyAgent


---------------------------------------------------------------------------
(* Calls of the two operations and the reading of what they return.        *)

\* the call name(ip) made for pod; the caller continues at frame
CallOperation(name, pod, ip, frame) ==
    /\ podIP' = ip
    /\ stack' = Call(<<name>>, frame)
    /\ UNCHANGED <<endpoint, locRetryCount, locSleepFactor, req, retryCount,
                   sleepFactor, gwRet, locRet, opRet>>

CallHist(name, pod) == [op |-> name, pod |-> pod] @@ OpHist

\* the operation's frame and locals are gone once its result has been read
OperationRead ==
    /\ opRet' = NoRet
    /\ podIP' = ""
    /\ endpoint' = NoEndpoint
    /\ locRetryCount' = 1
    /\ locSleepFactor' = 1
    /\ req' = NoRequest
    /\ retryCount' = 1
    /\ sleepFactor' = 1
    /\ UNCHANGED <<gwRet, locRet>>

ReadHist == [op |-> Nil, pod |-> NoPod] @@ OpHist

---------------------------------------------------------------------------
(* ApplyRoutePolicyForExistingPods (reconcileAll).                         *)

ApplyAllList ==
    /\ Top = "ApplyRoutePolicyForExistingPods"
    /\ \E l \in ListPods :
        /\ listPods' = l.n
        /\ hist' = Upd(hist, [healRuns |-> hist.healRuns + 1,
                              raListErr |-> l.err])
    /\ stack' = Goto("ApplyRoutePolicyForExistingPods.range")
    /\ UNCHANGED <<hns, MetadataIP, Initialized, signalChan, mainRoutineDone,
                   nEvents, exitCode, exited, podIP, endpoint, locRetryCount,
                   locSleepFactor, req, retryCount, sleepFactor, gwRet,
                   locRet, opRet>>
    /\ UNCHANGED ext

ApplyAllRange ==
    /\ Top = "ApplyRoutePolicyForExistingPods.range"
    /\ IF listPods = 0
       THEN /\ stack' = Return
            /\ hist' = Upd(hist, ReconcileHist)
            /\ UNCHANGED <<listPods, podIP, endpoint, locRetryCount,
                           locSleepFactor, req, retryCount, sleepFactor,
                           gwRet, locRet, opRet>>
       ELSE \E podItem \in Pods :
            LET seen == [raSeen |-> hist.raSeen +
                            (IF PassesTests(podItem) THEN 1 ELSE 0)]
            IN  /\ listPods' = listPods - 1
                /\ IF listedInScope(podItem)
                   THEN /\ CallOperation("ApplyEndpointRoutePolicy", podItem,
                               podItem.PodIP,
                               "ApplyRoutePolicyForExistingPods.applied")
                        /\ hist' = Upd(hist, CallHist("apply", podItem) @@
                               seen @@ [raApplies |-> hist.raApplies + 1])
                   ELSE /\ hist' = Upd(hist, seen)
                        /\ UNCHANGED <<stack, podIP, endpoint, locRetryCount,
                                       locSleepFactor, req, retryCount,
                                       sleepFactor, gwRet, locRet, opRet>>
    /\ UNCHANGED <<hns, MetadataIP, Initialized, signalChan, mainRoutineDone,
                   nEvents, exitCode, exited>>
    /\ UNCHANGED ext

\* variant: the first failed apply ends the run
ApplyAllAppliedOrAborted ==
    /\ Top = "ApplyRoutePolicyForExistingPods.applied"
    /\ opRet.done
    /\ OperationRead
    /\ IF opRet.err # NoErr
       THEN /\ stack' = Return
            /\ hist' = Upd(hist, ReadHist @@ ReconcileHist)
       ELSE /\ stack' = Goto("ApplyRoutePolicyForExistingPods.range")
            /\ hist' = Upd(hist, ReadHist)
    /\ UNCHANGED <<hns, MetadataIP, Initialized, signalChan, mainRoutineDone,
                   nEvents, listPods, exitCode, exited>>
    /\ UNCHANGED ext

\* err, _ := ApplyEndpointRoutePolicy(...): the error is logged
ApplyAllApplied ==
    /\ Top = "ApplyRoutePolicyForExistingPods.applied"
    /\ opRet.done
    /\ OperationRead
    /\ stack' = Goto("ApplyRoutePolicyForExistingPods.range")
    /\ hist' = Upd(hist, ReadHist @@
         [raErrs |-> hist.raErrs + (IF opRet.err # NoErr THEN 1 ELSE 0)])
    /\ UNCHANGED <<hns, MetadataIP, Initialized, signalChan, mainRoutineDone,
                   nEvents, listPods, exitCode, exited>>
    /\ UNCHANGED ext

---------------------------------------------------------------------------
(* RoutePolicySelfHeal.                                                    *)

RoutePolicySelfHeal ==
    /\ Top = "RoutePolicySelfHeal"
    \* time.Sleep(10 * time.Second), then ApplyRoutePolicyForExistingPods
    /\ hist' = Upd(hist, [healSleeps |-> Append(hist.healSleeps, selfHealSleep)])
    /\ stack' = Goto("ApplyRoutePolicyForExistingPods")
    /\ UNCHANGED <<hns, MetadataIP, Initialized, signalChan, mainRoutineDone,
                   nEvents, listPods, exitCode, exited, podIP, endpoint,
                   locRetryCount, locSleepFactor, req, retryCount,
                   sleepFactor, gwRet, locRet, opRet>>
    /\ UNCHANGED ext

---------------------------------------------------------------------------
(* DeleteRoutePolicyForExistingPods (teardown).                            *)

DeleteAllList ==
    /\ Top = "DeleteRoutePolicyForExistingPods"
    /\ \E l \in ListPods :
        /\ listPods' = l.n
        /\ exitCode' = IF l.err THEN 1 ELSE 0
        /\ hist' = Upd(hist, [tdStarted |-> TRUE, tdListErr |-> l.err])
    /\ stack' = Goto("DeleteRoutePolicyForExistingPods.range")
    /\ UNCHANGED <<hns, MetadataIP, Initialized, signalChan, mainRoutineDone,
                   nEvents, exited, podIP, endpoint, locRetryCount,
                   locSleepFactor, req, retryCount, sleepFactor, gwRet,
                   locRet, opRet>>
    /\ UNCHANGED ext

DeleteAllRange ==
    /\ Top = "DeleteRoutePolicyForExistingPods.range"
    /\ IF listPods = 0
       THEN /\ stack' = Goto("DeleteRoutePolicyForExistingPods.sleep")
            /\ UNCHANGED <<listPods, podIP, endpoint, locRetryCount,
                           locSleepFactor, req, retryCount, sleepFactor,
                           gwRet, locRet, opRet, hist>>
       ELSE \E podItem \in Pods :
                /\ listPods' = listPods - 1
                /\ IF listedOnNode(podItem)
                   THEN /\ CallOperation("DeleteEndpointRoutePolicy", podItem,
                               podItem.PodIP,
                               "DeleteRoutePolicyForExistingPods.deleted")
                        /\ hist' = Upd(hist, CallHist("remove", podItem) @@
                             [tdListed |-> Append(hist.tdListed, podItem),
                              tdRemoves |-> Append(hist.tdRemoves, podItem)])
                   ELSE /\ hist' = Upd(hist,
                             [tdListed |-> Append(hist.tdListed, podItem)])
                        /\ UNCHANGED <<stack, podIP, endpoint, locRetryCount,
                                       locSleepFactor, req, retryCount,
                                       sleepFactor, gwRet, locRet, opRet>>
    /\ UNCHANGED <<hns, MetadataIP, Initialized, signalChan, mainRoutineDone,
                   nEvents, exitCode, exited>>
    /\ UNCHANGED ext

DeleteAllDeleted ==
    /\ Top = "DeleteRoutePolicyForExistingPods.deleted"
    /\ opRet.done
    /\ OperationRead
    /\ stack' = Goto("DeleteRoutePolicyForExistingPods.range")
    /\ hist' = Upd(hist, ReadHist @@
         [tdErrs |-> hist.tdErrs + (IF opRet.err # NoErr THEN 1 ELSE 0)])
    /\ UNCHANGED <<hns, MetadataIP, Initialized, signalChan, mainRoutineDone,
                   nEvents, listPods, exitCode, exited>>
    /\ UNCHANGED ext

DeleteAllSleep ==
    /\ Top = "DeleteRoutePolicyForExistingPods.sleep"
    \* time.Sleep(10 * time.Second)
    /\ hist' = Upd(hist, [tdGrace |-> Append(hist.tdGrace, teardownSleep)])
    /\ stack' = Goto("DeleteRoutePolicyForExistingPods.exit")
    /\ UNCHANGED <<hns, MetadataIP, Initialized, signalChan, mainRoutineDone,
                   nEvents, listPods, exitCode, exited, podIP, endpoint,
                   locRetryCount, locSleepFactor, req, retryCount,
                   sleepFactor, gwRet, locRet, opRet>>
    /\ UNCHANGED ext

DeleteAllExit ==
    /\ Top = "DeleteRoutePolicyForExistingPods.exit"
    \* os.Exit(exitCode)
    /\ exited' = exitCode
    /\ stack' = <<"exited">>
    /\ UNCHANGED <<hns, MetadataIP, Initialized, signalChan, mainRoutineDone,
                   nEvents, listPods, exitCode, podIP, endpoint,
                   locRetryCount, locSleepFactor, req, retryCount,
                   sleepFactor, gwRet, locRet, opRet, hist>>
    /\ UNCHANGED ext

---------------------------------------------------------------------------
(* Sync.                                                                   *)

\* variant: the flag is set before the first reconciliation is run
SyncStartInitialized ==
    /\ Top = "Sync"
    /\ Initialized' = TRUE
    /\ stack' = Call(<<"ApplyRoutePolicyForExistingPods">>, "Sync.started")
    /\ UNCHANGED <<hns, MetadataIP, signalChan, mainRoutineDone,
                   nEvents, listPods, exitCode, exited, podIP, endpoint,
                   locRetryCount, locSleepFactor, req, retryCount,
                   sleepFactor, gwRet, locRet, opRet, hist>>
    /\ UNCHANGED ext

SyncStart ==
    /\ Top = "Sync"
    /\ stack' = Call(<<"ApplyRoutePolicyForExistingPods">>, "Sync.started")
    /\ UNCHANGED <<hns, MetadataIP, Initialized, signalChan, mainRoutineDone,
                   nEvents, listPods, exitCode, exited, podIP, endpoint,
                   locRetryCount, locSleepFactor, req, retryCount,
                   sleepFactor, gwRet, locRet, opRet, hist>>
    /\ UNCHANGED ext

SyncStarted ==
    /\ Top = "Sync.started"
    \* signal.Notify(signalChan, ...); server.Initialized = true
    /\ Initialized' = TRUE
    /\ stack' = Goto("Sync.select")
    /\ hist' = Upd(hist, [phase |-> "events"] @@ EventHist)
    /\ UNCHANGED <<hns, MetadataIP, signalChan, mainRoutineDone,
                   nEvents, listPods, exitCode, exited, podIP, endpoint,
                   locRetryCount, locSleepFactor, req, retryCount,
                   sleepFactor, gwRet, locRet, opRet>>
    /\ UNCHANGED ext

\* variant: the signal is taken wherever the goroutine stands
SyncSignalPreempting ==
    /\ hist.phase = "events"
    /\ signalChan
    /\ signalChan' = FALSE
    /\ stack' = <<"DeleteRoutePolicyForExistingPods", "Sync.close">>
    /\ hist' = Upd(hist, [phase |-> "teardown"] @@ EventHist)
    /\ UNCHANGED <<hns, MetadataIP, Initialized, mainRoutineDone,
                   nEvents, listPods, exitCode, exited, podIP, endpoint,
                   locRetryCount, locSleepFactor, req, retryCount,
                   sleepFactor, gwRet, locRet, opRet>>
    /\ UNCHANGED ext

\* variant: the signal is taken and the loop goes on
SyncSignalDropped ==
    /\ Top = "Sync.select"
    /\ signalChan
    /\ signalChan' = FALSE
    /\ UNCHANGED <<hns, MetadataIP, stack, Initialized, mainRoutineDone,
                   nEvents, listPods, exitCode, exited, podIP, endpoint,
                   locRetryCount, locSleepFactor, req, retryCount,
                   sleepFactor, gwRet, locRet, opRet, hist>>
    /\ UNCHANGED ext

\* case <-signalChan
SyncSignal ==
    /\ Top = "Sync.select"
    /\ signalChan
    /\ signalChan' = FALSE
    /\ stack' = Call(<<"DeleteRoutePolicyForExistingPods">>, "Sync.close")
    /\ hist' = Upd(hist, [phase |-> "teardown"] @@ EventHist)
    /\ UNCHANGED <<hns, MetadataIP, Initialized, mainRoutineDone,
                   nEvents, listPods, exitCode, exited, podIP, endpoint,
                   locRetryCount, locSleepFactor, req, retryCount,
                   sleepFactor, gwRet, locRet, opRet>>
    /\ UNCHANGED ext

\* case <-mainRoutineDone
SyncMainRoutineDone ==
    /\ Top = "Sync.select"
    /\ mainRoutineDone
    /\ stack' = Call(<<"DeleteRoutePolicyForExistingPods">>, "Sync.close")
    /\ hist' = Upd(hist, [phase |-> "teardown"] @@ EventHist)
    /\ UNCHANGED <<hns, MetadataIP, Initialized, signalChan, mainRoutineDone,
                   nEvents, listPods, exitCode, exited, podIP, endpoint,
                   locRetryCount, locSleepFactor, req, retryCount,
                   sleepFactor, gwRet, locRet, opRet>>
    /\ UNCHANGED ext

\* case pod = <-server.PodObjChannel
SyncPodEvent ==
    /\ Top = "Sync.select"
    /\ nEvents < MaxEvents
    /\ nEvents' = nEvents + 1
    /\ \E pod \in Pods :
        IF eventInScope(pod)
        THEN /\ CallOperation("ApplyEndpointRoutePolicy", pod, pod.PodIP,
                              "Sync.applied")
             /\ hist' = Upd(hist, CallHist("apply", pod) @@ EventHist)
        ELSE /\ hist' = Upd(hist, EventHist)
             /\ UNCHANGED <<stack, podIP, endpoint, locRetryCount,
                            locSleepFactor, req, retryCount, sleepFactor,
                            gwRet, locRet, opRet>>
    /\ UNCHANGED <<hns, MetadataIP, Initialized, signalChan, mainRoutineDone,
                   listPods, exitCode, exited>>
    /\ UNCHANGED ext

\* variant: only an UnKnown error starts the self-heal
needsSelfHealUnknownOnly(ret) == ret.err # NoErr /\ ret.t = UnKnown

\* Sync's test of what ApplyEndpointRoutePolicy returned for an event
needsSelfHeal(ret) == ret.err # NoErr /\ ret.t # NotFound

SyncApplied ==
    /\ Top = "Sync.applied"
    /\ opRet.done
    /\ OperationRead
    /\ IF needsSelfHeal(opRet)
       THEN /\ stack' = Call(<<"RoutePolicySelfHeal">>, "Sync.select")
            /\ hist' = Upd(hist, ReadHist @@
                 [evDone |-> TRUE, evFailed |-> opRet.err # NoErr,
                  evType |-> opRet.t, heals |-> hist.heals + 1])
       ELSE /\ stack' = Goto("Sync.select")
            /\ hist' = Upd(hist, ReadHist @@
                 [evDone |-> TRUE, evFailed |-> opRet.err # NoErr,
                  evType |-> opRet.t])
    /\ UNCHANGED <<hns, MetadataIP, Initialized, signalChan, mainRoutineDone,
                   nEvents, listPods, exitCode, exited>>
    /\ UNCHANGED ext

---------------------------------------------------------------------------
(* The environment of the loop.                                            *)

\* a SIGTERM or SIGINT is delivered once signal.Notify has registered
Signal ==
    /\ Initialized
    /\ exited = NotExited
    /\ ~signalChan
    /\ signalChan' = TRUE
    /\ UNCHANGED <<hns, MetadataIP, stack, Initialized, mainRoutineDone,
                   nEvents, listPods, exitCode, exited, podIP, endpoint,
                   locRetryCount, locSleepFactor, req, retryCount,
                   sleepFactor, gwRet, locRet, opRet, hist>>
    /\ UNCHANGED ext

\* the main routine closes mainRoutineDone
CloseMainRoutineDone ==
    /\ exited = NotExited
    /\ ~mainRoutineDone
    /\ mainRoutineDone' = TRUE
    /\ UNCHANGED <<hns, MetadataIP, stack, Initialized, signalChan,
                   nEvents, listPods, exitCode, exited, podIP, endpoint,
                   locRetryCount, locSleepFactor, req, retryCount,
                   sleepFactor, gwRet, locRet, opRet, hist>>
    /\ UNCHANGED ext

\* HNS creates the endpoint of a pod
EndpointCreated ==
    /\ exited = NotExited
    /\ \E id \in EndpointIds :
        /\ ~hns[id].present
        /\ hns' = [hns EXCEPT ![id] = [present |-> TRUE, Policies |-> <<>>]]
    /\ UNCHANGED <<MetadataIP, stack, Initialized, signalChan,
                   mainRoutineDone, nEvents, listPods, exitCode, exited,
                   podIP, endpoint, locRetryCount, locSleepFactor, req,
                   retryCount, sleepFactor, gwRet, locRet, opRet, hist>>
    /\ UNCHANGED ext

---------------------------------------------------------------------------
(* Spec: the reconciliation loop of one NMI process on a Windows node.     *)

\* an empty podMap, and no /healthz request being handled
NoPodMap == [uid \in {} |-> ""]
NoProbe == [pc |-> "idle"]
NoCallers == [c \in {} |-> Nil]

Locals ==
    /\ listPods = 0
    /\ exitCode = 0
    /\ exited = NotExited
    /\ podIP = ""
    /\ endpoint = NoEndpoint
    /\ locRetryCount = 1
    /\ locSleepFactor = 1
    /\ req = NoRequest
    /\ retryCount = 1
    /\ sleepFactor = 1
    /\ gwRet = NoRet
    /\ locRet = NoRet
    /\ opRet = NoRet
    /\ hist = HistInit
    /\ podMap = NoPodMap
    /\ ticks = 0
    /\ chain = FALSE
    /\ nodeTaints = <<>>
    /\ probe = NoProbe
    /\ gw = NoCallers

\* the policy collections an endpoint holds when the process starts
StartPolicies ==
    {<<>>, <<ProxyPolicy(IMDS)>>, <<[ok |-> TRUE, ip |-> NoField]>>}

\* the backends the loop starts with: the first endpoint may not exist yet
Backends ==
    {h \in [EndpointIds -> {[present |-> FALSE, Policies |-> <<>>]}
                           \cup [present : {TRUE}, Policies : StartPolicies]] :
        h["ep-2"] = [present |-> TRUE, Policies |-> <<>>]}

Init ==
    /\ hns \in Backends
    /\ MetadataIP = IMDS
    /\ stack = <<"Sync">>
    /\ Initialized = FALSE
    /\ signalChan = FALSE
    /\ mainRoutineDone = FALSE
    /\ nEvents = 0
    /\ Locals

Next ==
    \/ SyncStart \/ SyncStarted
    \/ SyncSignal \/ SyncMainRoutineDone \/ SyncPodEvent \/ SyncApplied
    \/ RoutePolicySelfHeal
    \/ ApplyAllList \/ ApplyAllRange \/ ApplyAllApplied
    \/ DeleteAllList \/ DeleteAllRange \/ DeleteAllDeleted
    \/ DeleteAllSleep \/ DeleteAllExit
    \/ Operation
    \/ Signal \/ CloseMainRoutineDone \/ EndpointCreated

Spec == Init /\ [][Next]_vars

\* the steps of the Sync goroutine other than taking a pod event
SyncSteps ==
    \/ SyncStart \/ SyncStarted \/ SyncApplied
    \/ SyncSignal \/ SyncMainRoutineDone
    \/ RoutePolicySelfHeal
    \/ ApplyAllList \/ ApplyAllRange \/ ApplyAllApplied
    \/ DeleteAllList \/ DeleteAllRange \/ DeleteAllDeleted
    \/ DeleteAllSleep \/ DeleteAllExit
    \/ Operation

\* it starts with a backend that does not show the first endpoint yet
InitFair == Init /\ ~hns["ep-1"].present

\* SpecFair: the goroutine keeps running: its calls and sleeps return, and
\* its select does not wait once signalChan or mainRoutineDone is ready.
\* The select picks at random among its ready cases, so that a ready
\* signalChan or mainRoutineDone is not passed over forever; as the pod
\* events of a run are bounded here, weak fairness of the steps is enough
\* for that.
SpecFair == InitFair /\ [][Next]_vars /\ WF_vars(SyncSteps)


---------------------------------------------------------------------------
(* SpecOps: the two operations called as the package's tests call them,    *)
(* with any pod IP, against a backend that may fail any request.           *)

TestIPs == {"", HostIP, PodIP1, PodIP2}

AnyBackends ==
    [EndpointIds -> {[present |-> FALSE, Policies |-> <<>>]}
                    \cup [present : {TRUE}, Policies : StartPolicies]]

\* err, et := ApplyEndpointRoutePolicy(tc.podIP, ...)
TestApply ==
    /\ Top = "Test"
    /\ hist.calls < MaxCalls
    /\ \E ip \in TestIPs :
        CallOperation("ApplyEndpointRoutePolicy", NoPod, ip, "Test.returned")
    /\ hist' = Upd(hist, CallHist("apply", NoPod) @@
                         [calls |-> hist.calls + 1])
    /\ UNCHANGED <<hns, MetadataIP, Initialized, signalChan, mainRoutineDone,
                   nEvents, listPods, exitCode, exited>>
    /\ UNCHANGED ext

\* err, _ := DeleteEndpointRoutePolicy(tc.podIP, tc.metadataIP)
TestDelete ==
    /\ Top = "Test"
    /\ hist.calls < MaxCalls
    /\ \E ip \in TestIPs :
        CallOperation("DeleteEndpointRoutePolicy", NoPod, ip, "Test.returned")
    /\ hist' = Upd(hist, CallHist("remove", NoPod) @@
                         [calls |-> hist.calls + 1])
    /\ UNCHANGED <<hns, MetadataIP, Initialized, signalChan, mainRoutineDone,
                   nEvents, listPods, exitCode, exited>>
    /\ UNCHANGED ext

TestReturned ==
    /\ Top = "Test.returned"
    /\ opRet.done
    /\ OperationRead
    /\ stack' = Goto("Test")
    /\ hist' = Upd(hist, ReadHist)
    /\ UNCHANGED <<hns, MetadataIP, Initialized, signalChan, mainRoutineDone,
                   nEvents, listPods, exitCode, exited>>
    /\ UNCHANGED ext

InitOps ==
    /\ hns \in AnyBackends
    /\ MetadataIP = IMDS
    /\ stack = <<"Test">>
    /\ Initialized = FALSE
    /\ signalChan = FALSE
    /\ mainRoutineDone = FALSE
    /\ nEvents = 0
    /\ Locals

NextOps ==
    \/ TestApply \/ TestDelete \/ TestReturned
    \/ Operation
    \/ EndpointCreated

SpecOps == InitOps /\ [][NextOps]_vars

\* SpecOps with the operation under way always taking its next step: the
\* operations run in the goroutine that called them, every raw request comes
\* back and every sleep ends
SpecOpsFair == InitOps /\ [][NextOps]_vars /\ WF_vars(Operation)

---------------------------------------------------------------------------
(* SpecEditor: addEndpointPolicy and deleteEndpointPolicy applied, any     *)
(* number of times, to an endpoint that starts with any policy collection, *)
(* for any target address, with a backend that carries out every request.  *)

EditorEndpoint == scanEndpoints(EndpointsFrom(hns, 1), PodIP1)

EditorApply ==
    /\ Top = "Editor"
    /\ LET request == addEndpointPolicy(EditorEndpoint, MetadataIP)
       IN  /\ hns' = ModifyEndpoint(hns, request.Request)
           /\ hist' = Upd(hist,
                [edOp |-> "apply", edRead |-> EditorEndpoint.Policies,
                 edSent |-> request.Request.Policies,
                 edErr |-> gatewaySuccess(NoResponse).err,
                 edStreak |-> Min(hist.edStreak + 1, 2)])
    /\ UNCHANGED <<MetadataIP, stack, Initialized, signalChan,
                   mainRoutineDone, nEvents, listPods, exitCode, exited,
                   podIP, endpoint, locRetryCount, locSleepFactor, req,
                   retryCount, sleepFactor, gwRet, locRet, opRet>>
    /\ UNCHANGED ext

EditorDelete ==
    /\ Top = "Editor"
    /\ LET request == deleteEndpointPolicy(EditorEndpoint, MetadataIP)
       IN  /\ hns' = ModifyEndpoint(hns, request.Request)
           /\ hist' = Upd(hist,
                [edOp |-> "remove", edRead |-> EditorEndpoint.Policies,
                 edSent |-> request.Request.Policies,
                 edErr |-> gatewaySuccess(NoResponse).err,
                 edStreak |-> 0])
    /\ UNCHANGED <<MetadataIP, stack, Initialized, signalChan,
                   mainRoutineDone, nEvents, listPods, exitCode, exited,
                   podIP, endpoint, locRetryCount, locSleepFactor, req,
                   retryCount, sleepFactor, gwRet, locRet, opRet>>
    /\ UNCHANGED ext

InitEditor ==
    /\ \E policies \in SeqsUpTo(PolicyEntries, MaxPolicies) :
        hns = [id \in EndpointIds |->
                 IF id = "ep-1" THEN [present |-> TRUE, Policies |-> policies]
                 ELSE [present |-> FALSE, Policies |-> <<>>]]
    /\ MetadataIP \in Addrs
    /\ stack = <<"Editor">>
    /\ Initialized = FALSE
    /\ signalChan = FALSE
    /\ mainRoutineDone = FALSE
    /\ nEvents = 0
    /\ Locals

NextEditor == EditorApply \/ EditorDelete

SpecEditor == InitEditor /\ [][NextEditor]_vars

---------------------------------------------------------------------------
(* SpecMap: the map-based WindowsRedirector, which starts with             *)
(* RedirectMetadataEndpoint and keeps podMap.  Its                         *)
(* ApplyRoutePolicyForExistingPods and DeleteRoutePolicyForExistingPods    *)
(* test and call as the ones above do, and drop what the calls return.     *)

UIDs == {"uid-1", "uid-2"}

\* the pods PodObjChannel delivers: deleted tells an event for a pod that is
\* being deleted from an event for a pod that is running
PodEvents ==
    [UID : UIDs, NodeName : {NodeName}, PodIP : {"", PodIP1},
     deleted : BOOLEAN]
    \cup [UID : {"uid-1"}, NodeName : {NodeName}, PodIP : {HostIP},
          deleted : {FALSE}]
    \cup [UID : {"uid-1"}, NodeName : {OtherNode}, PodIP : {PodIP1},
          deleted : {FALSE}]

\* the redirector's test of a pod event
mapEventInScope(pod) ==
    NodeName = pod.NodeName /\ HostIP # pod.PodIP

\* delete(podMap, uid)
DeleteKey(m, uid) == [u \in DOMAIN m \ {uid} |-> m[u]]

\* s.Server.PodClient.Start(exit); s.ApplyRoutePolicyForExistingPods()
RedirectMetadataEndpoint ==
    /\ Top = "RedirectMetadataEndpoint"
    /\ stack' = Call(<<"ApplyRoutePolicyForExistingPods">>,
                     "RedirectMetadataEndpoint.go")
    /\ UNCHANGED <<hns, MetadataIP, Initialized, signalChan, mainRoutineDone,
                   nEvents, listPods, exitCode, exited, podIP, endpoint,
                   locRetryCount, locSleepFactor, req, retryCount,
                   sleepFactor, gwRet, locRet, opRet, hist>>
    /\ UNCHANGED ext

\* go s.Sync()
RedirectMetadataEndpointGo ==
    /\ Top = "RedirectMetadataEndpoint.go"
    /\ stack' = <<"WindowsRedirector.Sync">>
    /\ UNCHANGED <<hns, MetadataIP, Initialized, signalChan, mainRoutineDone,
                   nEvents, listPods, exitCode, exited, podIP, endpoint,
                   locRetryCount, locSleepFactor, req, retryCount,
                   sleepFactor, gwRet, locRet, opRet, hist>>
    /\ UNCHANGED ext

\* signal.Notify(signalChan, ...); s.Server.Initialized = true
MapSyncStarted ==
    /\ Top = "WindowsRedirector.Sync"
    /\ Initialized' = TRUE
    /\ stack' = Goto("WindowsRedirector.Sync.select")
    /\ hist' = Upd(hist, [phase |-> "events"] @@ EventHist)
    /\ UNCHANGED <<hns, MetadataIP, signalChan, mainRoutineDone,
                   nEvents, listPods, exitCode, exited, podIP, endpoint,
                   locRetryCount, locSleepFactor, req, retryCount,
                   sleepFactor, gwRet, locRet, opRet>>
    /\ UNCHANGED ext

\* case <-signalChan
MapSyncSignal ==
    /\ Top = "WindowsRedirector.Sync.select"
    /\ signalChan
    /\ signalChan' = FALSE
    /\ stack' = Call(<<"DeleteRoutePolicyForExistingPods">>,
                     "WindowsRedirector.Sync.select")
    /\ hist' = Upd(hist, [phase |-> "teardown"] @@ EventHist @@ MapHist)
    /\ UNCHANGED <<hns, MetadataIP, Initialized, mainRoutineDone,
                   nEvents, listPods, exitCode, exited, podIP, endpoint,
                   locRetryCount, locSleepFactor, req, retryCount,
                   sleepFactor, gwRet, locRet, opRet>>
    /\ UNCHANGED ext

\* case pod = <-s.Server.PodObjChannel
MapSyncPodEvent ==
    /\ Top = "WindowsRedirector.Sync.select"
    /\ nEvents < MaxEvents
    /\ nEvents' = nEvents + 1
    /\ \E pod \in PodEvents :
        IF mapEventInScope(pod)
        THEN IF pod.UID \in DOMAIN podMap
             THEN /\ CallOperation("DeleteEndpointRoutePolicy", pod,
                                   podMap[pod.UID],
                                   "WindowsRedirector.Sync.deleted")
                  /\ hist' = Upd(hist, CallHist("remove", pod))
                  /\ UNCHANGED podMap
             ELSE /\ podMap' = (pod.UID :> pod.PodIP) @@ podMap
                  /\ CallOperation("ApplyEndpointRoutePolicy", pod,
                                   pod.PodIP,
                                   "WindowsRedirector.Sync.applied")
                  /\ hist' = Upd(hist, CallHist("apply", pod))
        ELSE UNCHANGED <<stack, podIP, endpoint, locRetryCount,
                         locSleepFactor, req, retryCount, sleepFactor,
                         gwRet, locRet, opRet, hist, podMap>>
    /\ UNCHANGED <<hns, MetadataIP, Initialized, signalChan, mainRoutineDone,
                   listPods, exitCode, exited>>
    /\ UNCHANGED <<ticks, chain, nodeTaints, probe, gw>>

\* delete(podMap, pod.UID), once DeleteEndpointRoutePolicy has returned
MapSyncDeleted ==
    /\ Top = "WindowsRedirector.Sync.deleted"
    /\ opRet.done
    /\ OperationRead
    /\ podMap' = DeleteKey(podMap, hist.pod.UID)
    /\ stack' = Goto("WindowsRedirector.Sync.select")
    /\ hist' = Upd(hist, ReadHist @@
         [mapApplied |-> {e \in hist.mapApplied : e.UID # hist.pod.UID}])
    /\ UNCHANGED <<hns, MetadataIP, Initialized, signalChan, mainRoutineDone,
                   nEvents, listPods, exitCode, exited>>
    /\ UNCHANGED <<ticks, chain, nodeTaints, probe, gw>>

\* what ApplyEndpointRoutePolicy returned is dropped
MapSyncApplied ==
    /\ Top = "WindowsRedirector.Sync.applied"
    /\ opRet.done
    /\ OperationRead
    /\ stack' = Goto("WindowsRedirector.Sync.select")
    /\ hist' = Upd(hist, ReadHist @@
         [mapApplied |-> hist.mapApplied \cup
             (IF opRet.err = NoErr /\ endpoint # NoEndpoint
              THEN {[UID |-> hist.pod.UID, IP |-> podIP]} ELSE {})])
    /\ UNCHANGED <<hns, MetadataIP, Initialized, signalChan, mainRoutineDone,
                   nEvents, listPods, exitCode, exited>>
    /\ UNCHANGED ext

\* the backends the map-based redirector starts with
MapBackends == {h \in Backends : h["ep-1"].Policies = <<>>}

InitMap ==
    /\ hns \in MapBackends
    /\ MetadataIP = IMDS
    /\ stack = <<"RedirectMetadataEndpoint">>
    /\ Initialized = FALSE
    /\ signalChan = FALSE
    /\ mainRoutineDone = FALSE
    /\ nEvents = 0
    /\ Locals

NextMap ==
    \/ RedirectMetadataEndpoint \/ RedirectMetadataEndpointGo
    \/ MapSyncStarted \/ MapSyncSignal \/ MapSyncPodEvent
    \/ MapSyncDeleted \/ MapSyncApplied
    \/ ApplyAllList \/ ApplyAllRange \/ ApplyAllApplied
    \/ DeleteAllList \/ DeleteAllRange \/ DeleteAllDeleted
    \/ DeleteAllSleep \/ DeleteAllExit
    \/ Operation
    \/ Signal \/ EndpointCreated

SpecMap == InitMap /\ [][NextMap]_vars

---------------------------------------------------------------------------
(* SpecRuleset: updateIPTableRules of pkg/nmi/server/redirector_linux.go,  *)
(* the redirector that keeps one node-wide custom iptables chain.          *)

\* the exit code of klog.Fatalf
FatalExit == 255

\* iptables.AddCustomChain and iptables.LogCustomChain: whether either
\* returns an error
CustomChainResults == {[err |-> FALSE], [err |-> TRUE]}

\* updateIPTableRulesInternal: the caller continues at next when it
\* returns, and the process exits when it does not; seen is what the caller
\* records of the call
updateIPTableRulesInternal(next, seen) ==
    \E r \in CustomChainResults :
        IF r.err
        THEN \* klog.Fatalf("%s", err)
             /\ exited' = FatalExit
             /\ stack' = <<"exited">>
             /\ hist' = Upd(hist, seen)
             /\ UNCHANGED chain
        ELSE /\ chain' = TRUE
             /\ stack' = Goto(next)
             /\ hist' = Upd(hist, [rsAsserts |-> hist.rsAsserts + 1] @@ seen)
             /\ UNCHANGED exited

\* signal.Notify(signalChan, ...); ticker := time.NewTicker(...)
RulesetStart ==
    /\ Top = "updateIPTableRules"
    /\ stack' = Goto("updateIPTableRules.first")
    /\ UNCHANGED <<hns, MetadataIP, Initialized, signalChan, mainRoutineDone,
                   nEvents, listPods, exitCode, exited, podIP, endpoint,
                   locRetryCount, locSleepFactor, req, retryCount,
                   sleepFactor, gwRet, locRet, opRet, hist>>
    /\ UNCHANGED ext

\* updateIPTableRulesInternal(server), run once before the loop
RulesetFirst ==
    /\ Top = "updateIPTableRules.first"
    /\ updateIPTableRulesInternal("updateIPTableRules.initialized",
                                  [phase |-> "startup"])
    /\ UNCHANGED <<hns, MetadataIP, Initialized, signalChan, mainRoutineDone,
                   nEvents, listPods, exitCode, podIP, endpoint,
                   locRetryCount, locSleepFactor, req, retryCount,
                   sleepFactor, gwRet, locRet, opRet>>
    /\ UNCHANGED <<podMap, ticks, nodeTaints, probe, gw>>

\* server.Initialized = true
RulesetInitialized ==
    /\ Top = "updateIPTableRules.initialized"
    /\ Initialized' = TRUE
    /\ stack' = Goto("updateIPTableRules.select")
    /\ hist' = Upd(hist, [phase |-> "events"])
    /\ UNCHANGED <<hns, MetadataIP, signalChan, mainRoutineDone,
                   nEvents, listPods, exitCode, exited, podIP, endpoint,
                   locRetryCount, locSleepFactor, req, retryCount,
                   sleepFactor, gwRet, locRet, opRet>>
    /\ UNCHANGED ext

\* case <-mainRoutineDone: the case has no statements
RulesetMainRoutineDone ==
    /\ Top = "updateIPTableRules.select"
    /\ mainRoutineDone
    /\ mainRoutineDone' = FALSE
    /\ hist' = Upd(hist, [rsDone |-> Min(hist.rsDone + 1, MaxTicks)])
    /\ UNCHANGED <<hns, MetadataIP, stack, Initialized, signalChan,
                   nEvents, listPods, exitCode, exited, podIP, endpoint,
                   locRetryCount, locSleepFactor, req, retryCount,
                   sleepFactor, gwRet, locRet, opRet>>
    /\ UNCHANGED ext

\* case <-signalChan: handleTermination()
RulesetSignal ==
    /\ Top = "updateIPTableRules.select"
    /\ signalChan
    /\ signalChan' = FALSE
    /\ stack' = Call(<<"handleTermination">>, "updateIPTableRules.select")
    /\ hist' = Upd(hist, [phase |-> "teardown"])
    /\ UNCHANGED <<hns, MetadataIP, Initialized, mainRoutineDone,
                   nEvents, listPods, exitCode, exited, podIP, endpoint,
                   locRetryCount, locSleepFactor, req, retryCount,
                   sleepFactor, gwRet, locRet, opRet>>
    /\ UNCHANGED ext

\* case <-ticker.C: updateIPTableRulesInternal(server)
RulesetTick ==
    /\ Top = "updateIPTableRules.select"
    /\ ticks < MaxTicks
    /\ ticks' = ticks + 1
    /\ updateIPTableRulesInternal("updateIPTableRules.select",
                                  [rsTicks |-> hist.rsTicks + 1])
    /\ UNCHANGED <<hns, MetadataIP, Initialized, signalChan, mainRoutineDone,
                   nEvents, listPods, exitCode, podIP, endpoint,
                   locRetryCount, locSleepFactor, req, retryCount,
                   sleepFactor, gwRet, locRet, opRet>>
    /\ UNCHANGED <<podMap, nodeTaints, probe, gw>>

\* exitCode := 0; iptables.DeleteCustomChain()
handleTermination ==
    /\ Top = "handleTermination"
    /\ \E r \in CustomChainResults :
        /\ exitCode' = IF r.err THEN 1 ELSE 0
        /\ chain' = IF r.err THEN chain ELSE FALSE
        /\ hist' = Upd(hist, [rsDeleteCalled |-> TRUE, rsDeleteErr |-> r.err])
    /\ stack' = Goto("handleTermination.sleep")
    /\ UNCHANGED <<hns, MetadataIP, Initialized, signalChan, mainRoutineDone,
                   nEvents, listPods, exited, podIP, endpoint,
                   locRetryCount, locSleepFactor, req, retryCount,
                   sleepFactor, gwRet, locRet, opRet>>
    /\ UNCHANGED <<podMap, ticks, nodeTaints, probe, gw>>

\* time.Sleep(10 * time.Second)
handleTerminationSleep ==
    /\ Top = "handleTermination.sleep"
    /\ hist' = Upd(hist, [rsGrace |-> Append(hist.rsGrace, terminationSleep)])
    /\ stack' = Goto("handleTermination.exit")
    /\ UNCHANGED <<hns, MetadataIP, Initialized, signalChan, mainRoutineDone,
                   nEvents, listPods, exitCode, exited, podIP, endpoint,
                   locRetryCount, locSleepFactor, req, retryCount,
                   sleepFactor, gwRet, locRet, opRet>>
    /\ UNCHANGED ext

\* os.Exit(exitCode)
handleTerminationExit ==
    /\ Top = "handleTermination.exit"
    /\ exited' = exitCode
    /\ stack' = <<"exited">>
    /\ UNCHANGED <<hns, MetadataIP, Initialized, signalChan, mainRoutineDone,
                   nEvents, listPods, exitCode, podIP, endpoint,
                   locRetryCount, locSleepFactor, req, retryCount,
                   sleepFactor, gwRet, locRet, opRet, hist>>
    /\ UNCHANGED ext

\* a SIGTERM or SIGINT is delivered once updateIPTableRules has registered
\* signalChan, which it does before it installs the chain
RulesetSignalled ==
    /\ Top \in {"updateIPTableRules.first", "updateIPTableRules.initialized",
                "updateIPTableRules.select"}
    /\ ~signalChan
    /\ signalChan' = TRUE
    /\ UNCHANGED <<hns, MetadataIP, stack, Initialized, mainRoutineDone,
                   nEvents, listPods, exitCode, exited, podIP, endpoint,
                   locRetryCount, locSleepFactor, req, retryCount,
                   sleepFactor, gwRet, locRet, opRet, hist>>
    /\ UNCHANGED ext

\* the main routine sends on mainRoutineDone
SendMainRoutineDone ==
    /\ exited = NotExited
    /\ ~mainRoutineDone
    /\ hist.rsDone < MaxTicks
    /\ mainRoutineDone' = TRUE
    /\ UNCHANGED <<hns, MetadataIP, stack, Initialized, signalChan,
                   nEvents, listPods, exitCode, exited, podIP, endpoint,
                   locRetryCount, locSleepFactor, req, retryCount,
                   sleepFactor, gwRet, locRet, opRet, hist>>
    /\ UNCHANGED ext

InitRuleset ==
    /\ hns \in {h \in Backends : ~h["ep-1"].present}
    /\ MetadataIP = IMDS
    /\ stack = <<"updateIPTableRules">>
    /\ Initialized = FALSE
    /\ signalChan = FALSE
    /\ mainRoutineDone = FALSE
    /\ nEvents = 0
    /\ Locals

NextRuleset ==
    \/ RulesetStart \/ RulesetFirst \/ RulesetInitialized
    \/ RulesetMainRoutineDone \/ RulesetSignal \/ RulesetTick
    \/ handleTermination \/ handleTerminationSleep \/ handleTerminationExit
    \/ RulesetSignalled \/ SendMainRoutineDone

SpecRuleset == InitRuleset /\ [][NextRuleset]_vars

---------------------------------------------------------------------------
(* SpecProbe: the /healthz handlers of the probes package, one request at  *)
(* a time, while the redirector sets server.Initialized and others change  *)
(* the node's taints.                                                      *)
(*   minimal   InitHealthProbe                                             *)
(*   hcn       initNMIWindowsHealthProbe that compares the applied route   *)
(*             policies with the pods and lists the identities             *)
(*   taint     initNMIWindowsHealthProbe that taints the node              *)

IMDSEndpoint == "169.254.169.254"

HcnTaint == [Key |-> "hcnagentfailed", Effect |-> "NoSchedule"]
OtherTaints == {[Key |-> "other-a", Effect |-> "NoSchedule"],
                [Key |-> "other-b", Effect |-> "NoExecute"]}

\* the taints with another key than the probe's, in their order
OthersOf(taints) == SelectSeq(taints, LAMBDA t : t.Key # HcnTaint.Key)

\* a removeTaint that prepends what it keeps
RECURSIVE removeTaintPrepending(_, _)
removeTaintPrepending(taints, taintName) ==
    IF taints = <<>> THEN <<>>
    ELSE IF Head(taints).Key = taintName
    THEN removeTaintPrepending(Tail(taints), taintName)
    ELSE removeTaintPrepending(Tail(taints), taintName) \o <<Head(taints)>>

\* removeTaint(taints, taintName)
RECURSIVE removeTaint(_, _)
removeTaint(taints, taintName) ==
    IF taints = <<>> THEN <<>>
    ELSE IF Head(taints).Key = taintName
    THEN removeTaint(Tail(taints), taintName)
    ELSE <<Head(taints)>> \o removeTaint(Tail(taints), taintName)

\* the taints the handler sends in its Update: with the probe's taint
\* appended when the HNS request failed, without it when it did not
probeTaints(taints, hcnErr) ==
    IF hcnErr THEN Append(taints, HcnTaint)
    ELSE removeTaint(taints, HcnTaint.Key)

\* the status the taint handler writes
taintStatus(hcnErr) == IF hcnErr THEN 500 ELSE 200

\* a comparing handler that lets a failed identity listing pass
hcnStatusOfRequestOnly(hcnErr, idErr) == IF hcnErr THEN 500 ELSE 200

\* the status the comparing handler writes
hcnStatus(hcnErr, idErr) == IF hcnErr \/ idErr THEN 500 ELSE 200

\* the body every handler writes
probeBody(condition) == IF condition THEN "Active" ELSE "Not Active"

\* strings.Contains(string(policy), IMDSEndpoint)
ContainsIMDS(policy) == policy.ip = IMDSEndpoint

\* policiesMap[ip]: the policies of the last enumerated endpoint with the IP
RECURSIVE policiesMap(_, _)
policiesMap(endpoints, ip) ==
    IF endpoints = <<>> THEN [ok |-> FALSE, policies |-> <<>>]
    ELSE LET last == endpoints[Len(endpoints)]
         IN  IF last.IPAddress = ip
             THEN [ok |-> TRUE, policies |-> last.Policies]
             ELSE policiesMap(SubSeq(endpoints, 1, Len(endpoints) - 1), ip)

\* variant: a pod without an enumerated endpoint is reported as well
RECURSIVE mismatchesWithMissing(_, _)
mismatchesWithMissing(endpoints, pods) ==
    IF pods = <<>> THEN <<>>
    ELSE LET podItem == Head(pods)
             m == policiesMap(endpoints, podItem.PodIP)
             found == \E i \in 1..Len(m.policies) : ContainsIMDS(m.policies[i])
         IN  (IF listedInScope(podItem) /\ ~found
              THEN <<podItem.PodIP>> ELSE <<>>)
             \o mismatchesWithMissing(endpoints, Tail(pods))

\* the pod IPs compareAppliedRoutePoliciesWithAllExistingPods reports a
\* policy mismatch for, in the order of the listing
RECURSIVE mismatches(_, _)
mismatches(endpoints, pods) ==
    IF pods = <<>> THEN <<>>
    ELSE LET podItem == Head(pods)
             m == policiesMap(endpoints, podItem.PodIP)
             found == \E i \in 1..Len(m.policies) : ContainsIMDS(m.policies[i])
         IN  (IF listedInScope(podItem) /\ m.ok /\ ~found
              THEN <<podItem.PodIP>> ELSE <<>>)
             \o mismatches(endpoints, Tail(pods))

\* s.PodClient.ListPods() of the handler: an error, or a listing
ProbeListings ==
    {[err |-> TRUE, pods |-> <<>>]}
    \cup {[err |-> FALSE, pods |-> l] : l \in SeqsUpTo(Pods, MaxPods)}

\* a handler takes the next request
ProbeIdle == probe.pc \in {"idle", "done"} /\ hist.prN < MaxProbes

ProbeTaken == [prN |-> hist.prN + 1]

\* InitHealthProbe's handler
ProbeMinimal ==
    /\ ProbeIdle
    /\ probe' = [pc |-> "done", variant |-> "minimal", status |-> 200,
                 body |-> probeBody(Initialized), condition |-> Initialized,
                 failed |-> FALSE]
    /\ hist' = Upd(hist, ProbeTaken)
    /\ UNCHANGED <<hns, MetadataIP, stack, Initialized, signalChan,
                   mainRoutineDone, nEvents, listPods, exitCode, exited,
                   podIP, endpoint, locRetryCount, locSleepFactor, req,
                   retryCount, sleepFactor, gwRet, locRet, opRet>>
    /\ UNCHANGED <<podMap, ticks, chain, nodeTaints, gw>>

\* the comparing handler: res := hcnclient.InvokeHNSRequest(request)
ProbeHcnInvoke ==
    /\ ProbeIdle
    /\ \E res \in InvokeHNSRequest(EnumerateRequest, hns, 1) :
        probe' = [pc |-> "compare", variant |-> "hcn",
                  request |-> EnumerateRequest,
                  hcnErr |-> res.Error # NoError, response |-> res.Response]
    /\ hist' = Upd(hist, ProbeTaken)
    /\ UNCHANGED <<hns, MetadataIP, stack, Initialized, signalChan,
                   mainRoutineDone, nEvents, listPods, exitCode, exited,
                   podIP, endpoint, locRetryCount, locSleepFactor, req,
                   retryCount, sleepFactor, gwRet, locRet, opRet>>
    /\ UNCHANGED <<podMap, ticks, chain, nodeTaints, gw>>

\* variant: a handler that applies the policy where it finds it missing
ProbeHcnCompareRepairing ==
    /\ probe.pc = "compare"
    /\ IF ~probe.response.valid
       THEN /\ probe' = [pc |-> "identities", listed |-> <<>>,
                         listErr |-> FALSE, reported |-> <<>>] @@ probe
            /\ hns' = hns
       ELSE \E l \in ProbeListings :
            LET eps == probe.response.endpoints
                rep == mismatches(eps, l.pods)
                lacking == {i \in 1..Len(eps) :
                              \E j \in 1..Len(rep) : eps[i].IPAddress = rep[j]}
            IN  /\ probe' = [pc |-> "identities", listed |-> l.pods,
                             listErr |-> l.err, reported |-> rep] @@ probe
                /\ hns' = IF lacking = {} THEN hns
                          ELSE LET i == CHOOSE i \in lacking : TRUE
                               IN  ModifyEndpoint(hns,
                                     addEndpointPolicy(eps[i],
                                                       MetadataIP).Request)
    /\ UNCHANGED <<MetadataIP, stack, Initialized, signalChan,
                   mainRoutineDone, nEvents, listPods, exitCode, exited,
                   podIP, endpoint, locRetryCount, locSleepFactor, req,
                   retryCount, sleepFactor, gwRet, locRet, opRet, hist>>
    /\ UNCHANGED <<podMap, ticks, chain, nodeTaints, gw>>

\* compareAppliedRoutePoliciesWithAllExistingPods(res.Response, s)
ProbeHcnCompare ==
    /\ probe.pc = "compare"
    /\ IF ~probe.response.valid
       THEN \* json.Unmarshal fails: return
            probe' = [pc |-> "identities", listed |-> <<>>, listErr |-> FALSE,
                      reported |-> <<>>] @@ probe
       ELSE \E l \in ProbeListings :
            probe' = [pc |-> "identities", listed |-> l.pods,
                      listErr |-> l.err,
                      reported |-> mismatches(probe.response.endpoints,
                                              l.pods)] @@ probe
    /\ UNCHANGED <<hns, MetadataIP, stack, Initialized, signalChan,
                   mainRoutineDone, nEvents, listPods, exitCode, exited,
                   podIP, endpoint, locRetryCount, locSleepFactor, req,
                   retryCount, sleepFactor, gwRet, locRet, opRet, hist>>
    /\ UNCHANGED <<podMap, ticks, chain, nodeTaints, gw>>

\* s.KubeClient.ListAzureIdentitiesFromAPIServer(), w.WriteHeader(statusCode)
\* and the body
ProbeHcnIdentities ==
    /\ probe.pc = "identities"
    /\ \E idErr \in BOOLEAN :
        probe' = [pc |-> "done", idErr |-> idErr,
                  status |-> hcnStatus(probe.hcnErr, idErr),
                  body |-> probeBody(Initialized), condition |-> Initialized,
                  failed |-> probe.hcnErr \/ idErr] @@ probe
    /\ UNCHANGED <<hns, MetadataIP, stack, Initialized, signalChan,
                   mainRoutineDone, nEvents, listPods, exitCode, exited,
                   podIP, endpoint, locRetryCount, locSleepFactor, req,
                   retryCount, sleepFactor, gwRet, locRet, opRet, hist>>
    /\ UNCHANGED <<podMap, ticks, chain, nodeTaints, gw>>

\* the tainting handler: res := hcnclient.InvokeHNSRequest(request)
ProbeTaintInvoke ==
    /\ ProbeIdle
    /\ \E res \in InvokeHNSRequest(EnumerateRequest, hns, 1) :
        probe' = [pc |-> "get", variant |-> "taint",
                  hcnErr |-> res.Error # NoError]
    /\ hist' = Upd(hist, ProbeTaken)
    /\ UNCHANGED <<hns, MetadataIP, stack, Initialized, signalChan,
                   mainRoutineDone, nEvents, listPods, exitCode, exited,
                   podIP, endpoint, locRetryCount, locSleepFactor, req,
                   retryCount, sleepFactor, gwRet, locRet, opRet>>
    /\ UNCHANGED <<podMap, ticks, chain, nodeTaints, gw>>

\* variant: a failed Get hands back no Node, and the handler's write to
\* currentNode.Spec.Taints ends it without a response
ProbeTaintGetNil ==
    /\ probe.pc = "get"
    /\ \E getErr \in BOOLEAN :
        probe' = IF getErr
                 THEN [pc |-> "panicked", getErr |-> TRUE] @@ probe
                 ELSE [pc |-> "update", getErr |-> FALSE, stale |-> FALSE,
                       read |-> nodeTaints,
                       taints |-> probeTaints(nodeTaints, probe.hcnErr)]
                      @@ probe
    /\ UNCHANGED <<hns, MetadataIP, stack, Initialized, signalChan,
                   mainRoutineDone, nEvents, listPods, exitCode, exited,
                   podIP, endpoint, locRetryCount, locSleepFactor, req,
                   retryCount, sleepFactor, gwRet, locRet, opRet, hist>>
    /\ UNCHANGED <<podMap, ticks, chain, nodeTaints, gw>>

\* currentNode, err := clientSet.CoreV1().Nodes().Get(nodeName, ...): the
\* node, or an error with the empty Node the client returns with it; then
\* currentNode.Spec.Taints = append(...) or removeTaint(...)
ProbeTaintGet ==
    /\ probe.pc = "get"
    /\ \E getErr \in BOOLEAN :
        LET read == IF getErr THEN <<>> ELSE nodeTaints
        IN  probe' = [pc |-> "update", getErr |-> getErr, stale |-> FALSE,
                      read |-> read,
                      taints |-> probeTaints(read, probe.hcnErr)] @@ probe
    /\ UNCHANGED <<hns, MetadataIP, stack, Initialized, signalChan,
                   mainRoutineDone, nEvents, listPods, exitCode, exited,
                   podIP, endpoint, locRetryCount, locSleepFactor, req,
                   retryCount, sleepFactor, gwRet, locRet, opRet, hist>>
    /\ UNCHANGED <<podMap, ticks, chain, nodeTaints, gw>>

\* what Nodes().Update(currentNode) can come back with: an error always for
\* the nameless Node of a failed Get and for a Node read before others
\* changed it, an error or the stored Node otherwise
UpdateErrors(getErr, stale) ==
    IF getErr \/ stale THEN {TRUE} ELSE BOOLEAN

\* _, err = clientSet.CoreV1().Nodes().Update(currentNode),
\* w.WriteHeader(...) and the body
ProbeTaintUpdate ==
    /\ probe.pc = "update"
    /\ \E updErr \in UpdateErrors(probe.getErr, probe.stale) :
        /\ nodeTaints' = IF updErr THEN nodeTaints ELSE probe.taints
        /\ probe' = [pc |-> "done", updErr |-> updErr,
                     status |-> taintStatus(probe.hcnErr),
                     body |-> probeBody(Initialized),
                     condition |-> Initialized,
                     failed |-> probe.hcnErr] @@ probe
        /\ hist' = Upd(hist, [prAllOk |->
                        hist.prAllOk /\ ~probe.getErr /\ ~updErr])
    /\ UNCHANGED <<hns, MetadataIP, stack, Initialized, signalChan,
                   mainRoutineDone, nEvents, listPods, exitCode, exited,
                   podIP, endpoint, locRetryCount, locSleepFactor, req,
                   retryCount, sleepFactor, gwRet, locRet, opRet>>
    /\ UNCHANGED <<podMap, ticks, chain, gw>>

\* the redirector of the process sets server.Initialized
RedirectorInitialized ==
    /\ ~Initialized
    /\ Initialized' = TRUE
    /\ UNCHANGED <<hns, MetadataIP, stack, signalChan,
                   mainRoutineDone, nEvents, listPods, exitCode, exited,
                   podIP, endpoint, locRetryCount, locSleepFactor, req,
                   retryCount, sleepFactor, gwRet, locRet, opRet, hist>>
    /\ UNCHANGED ext

\* someone else gives the node another taint; a Node the handler has read
\* is then out of date
NodeChanged ==
    /\ hist.prChanges < MaxNodeChanges
    /\ \E t \in OtherTaints :
        /\ nodeTaints' = Append(nodeTaints, t)
        /\ hist' = Upd(hist, [prChanges |-> hist.prChanges + 1,
                              prOthers |-> Append(hist.prOthers, t)])
    /\ probe' = IF probe.pc = "update" THEN [stale |-> TRUE] @@ probe
                ELSE probe
    /\ UNCHANGED <<hns, MetadataIP, stack, Initialized, signalChan,
                   mainRoutineDone, nEvents, listPods, exitCode, exited,
                   podIP, endpoint, locRetryCount, locSleepFactor, req,
                   retryCount, sleepFactor, gwRet, locRet, opRet>>
    /\ UNCHANGED <<podMap, ticks, chain, gw>>

InitProbe ==
    /\ hns \in Backends
    /\ MetadataIP = IMDS
    /\ stack = <<"probes">>
    /\ Initialized = FALSE
    /\ signalChan = FALSE
    /\ mainRoutineDone = FALSE
    /\ nEvents = 0
    /\ listPods = 0
    /\ exitCode = 0
    /\ exited = NotExited
    /\ podIP = ""
    /\ endpoint = NoEndpoint
    /\ locRetryCount = 1
    /\ locSleepFactor = 1
    /\ req = NoRequest
    /\ retryCount = 1
    /\ sleepFactor = 1
    /\ gwRet = NoRet
    /\ locRet = NoRet
    /\ opRet = NoRet
    /\ podMap = NoPodMap
    /\ ticks = 0
    /\ chain = FALSE
    /\ probe = NoProbe
    /\ gw = NoCallers
    /\ nodeTaints \in SeqsUpTo(OtherTaints \cup {HcnTaint}, MaxTaints)
    /\ hist = Upd(HistInit,
                  [prOthers |-> OthersOf(nodeTaints)])

NextProbe ==
    \/ ProbeMinimal
    \/ ProbeHcnInvoke \/ ProbeHcnCompare \/ ProbeHcnIdentities
    \/ ProbeTaintInvoke \/ ProbeTaintGet \/ ProbeTaintUpdate
    \/ RedirectorInitialized \/ NodeChanged

SpecProbe == InitProbe /\ [][NextProbe]_vars

\* the steps of a handler that has taken a request: net/http runs each
\* handler in a goroutine of its own, and every call the handler makes
\* returns, with a result or with an error
ProbeSteps ==
    \/ ProbeHcnCompare \/ ProbeHcnIdentities
    \/ ProbeTaintGet \/ ProbeTaintUpdate

InitProbeFair == InitProbe /\ nodeTaints \in {<<>>, <<HcnTaint>>}

SpecProbeFair == InitProbeFair /\ [][NextProbe]_vars /\ WF_vars(ProbeSteps)

---------------------------------------------------------------------------
(* SpecProbeLoop: the comparing /healthz handler running while the         *)
(* reconciliation loop of the same process changes the backend.  The loop  *)
(* is seen through what it does to the state the handler reads: it sets    *)
(* Initialized, and its ApplyEndpointRoutePolicy and                       *)
(* DeleteEndpointRoutePolicy send a Modify for an endpoint.                *)

\* the loop's ApplyEndpointRoutePolicy or DeleteEndpointRoutePolicy gets
\* its Modify request through to the backend
LoopModified ==
    /\ Initialized
    /\ LET eps == EndpointsFrom(hns, 1)
       IN  \E i \in 1..Len(eps) :
           \E r \in {addEndpointPolicy(eps[i], MetadataIP),
                     deleteEndpointPolicy(eps[i], MetadataIP)} :
           \E res \in InvokeHNSRequest(r, hns, 1) :
               /\ res.Error = NoError
               /\ res.hns # hns
               /\ hns' = res.hns
    /\ UNCHANGED <<MetadataIP, stack, Initialized, signalChan,
                   mainRoutineDone, nEvents, listPods, exitCode, exited,
                   podIP, endpoint, locRetryCount, locSleepFactor, req,
                   retryCount, sleepFactor, gwRet, locRet, opRet, hist>>
    /\ UNCHANGED ext

InitProbeLoop == InitProbe /\ nodeTaints = <<>>

NextProbeLoop ==
    \/ ProbeHcnInvoke \/ ProbeHcnCompare \/ ProbeHcnIdentities
    \/ RedirectorInitialized \/ EndpointCreated \/ LoopModified

SpecProbeLoop == InitProbeLoop /\ [][NextProbeLoop]_vars

---------------------------------------------------------------------------
(* SpecGateways: callHcnProxyAgent called from two goroutines at once      *)
(* against the one backend, which may fail any raw request.  retryCount    *)
(* and sleepFactor are locals of the function: every call has its own.     *)

Callers == {"loop", "reporter"}

\* a goroutine that is not in callHcnProxyAgent
IdleCaller == [pc |-> "idle", calls |-> 0]

\* retryCount := 1, maxRetryCount := 4, sleepFactor = 1
FreshCall(calls) ==
    [pc |-> "calling", calls |-> calls, retryCount |-> 1, sleepFactor |-> 1,
     attempts |-> 0, sleeps |-> <<>>, err |-> NoError]

\* the locals of a call after an attempt that came back with r
AfterAttempt(g, r) ==
    LET tried == [g EXCEPT !.attempts = @ + 1]
    IN  IF r.err # NoError
        THEN IF gatewayGivesUp(g.retryCount)
             THEN [tried EXCEPT !.pc = "returned", !.err = r.err]
             ELSE [tried EXCEPT !.sleeps = Append(@, g.sleepFactor),
                                !.sleepFactor = @ * 2,
                                !.retryCount = @ + 1]
        ELSE [tried EXCEPT !.pc = "returned"]

\* a goroutine calls callHcnProxyAgent(request)
GwCall(c) ==
    /\ gw[c].pc \in {"idle", "returned"}
    /\ gw[c].calls < MaxCalls
    /\ gw' = [gw EXCEPT ![c] = FreshCall(gw[c].calls + 1)]
    /\ UNCHANGED <<hns, MetadataIP, stack, Initialized, signalChan,
                   mainRoutineDone, nEvents, listPods, exitCode, exited,
                   podIP, endpoint, locRetryCount, locSleepFactor, req,
                   retryCount, sleepFactor, gwRet, locRet, opRet, hist>>
    /\ UNCHANGED <<podMap, ticks, chain, nodeTaints, probe>>

\* variant: retryCount and sleepFactor are shared by the calls under way
GwAttemptShared(c) ==
    /\ gw[c].pc = "calling"
    /\ \E res \in InvokeHNSRequest(EnumerateRequest, hns, gw[c].attempts + 1) :
        LET own == AfterAttempt(gw[c], callHcnProxyAgentInternal(res))
        IN  gw' = [d \in Callers |->
                     IF d = c THEN own
                     ELSE IF gw[d].pc = "calling"
                     THEN [gw[d] EXCEPT !.retryCount = own.retryCount,
                                        !.sleepFactor = own.sleepFactor]
                     ELSE gw[d]]
    /\ UNCHANGED <<hns, MetadataIP, stack, Initialized, signalChan,
                   mainRoutineDone, nEvents, listPods, exitCode, exited,
                   podIP, endpoint, locRetryCount, locSleepFactor, req,
                   retryCount, sleepFactor, gwRet, locRet, opRet, hist>>
    /\ UNCHANGED <<podMap, ticks, chain, nodeTaints, probe>>

\* one turn of the for loop of a call: callHcnProxyAgentInternal(req), then
\* the return, or the sleep before the next turn
GwAttempt(c) ==
    /\ gw[c].pc = "calling"
    /\ \E res \in InvokeHNSRequest(EnumerateRequest, hns, gw[c].attempts + 1) :
        gw' = [gw EXCEPT ![c] =
                  AfterAttempt(gw[c], callHcnProxyAgentInternal(res))]
    /\ UNCHANGED <<hns, MetadataIP, stack, Initialized, signalChan,
                   mainRoutineDone, nEvents, listPods, exitCode, exited,
                   podIP, endpoint, locRetryCount, locSleepFactor, req,
                   retryCount, sleepFactor, gwRet, locRet, opRet, hist>>
    /\ UNCHANGED <<podMap, ticks, chain, nodeTaints, probe>>

InitGateways ==
    /\ hns \in Backends
    /\ MetadataIP = IMDS
    /\ stack = <<"callers">>
    /\ Initialized = TRUE
    /\ signalChan = FALSE
    /\ mainRoutineDone = FALSE
    /\ nEvents = 0
    /\ listPods = 0
    /\ exitCode = 0
    /\ exited = NotExited
    /\ podIP = ""
    /\ endpoint = NoEndpoint
    /\ locRetryCount = 1
    /\ locSleepFactor = 1
    /\ req = NoRequest
    /\ retryCount = 1
    /\ sleepFactor = 1
    /\ gwRet = NoRet
    /\ locRet = NoRet
    /\ opRet = NoRet
    /\ hist = HistInit
    /\ podMap = NoPodMap
    /\ ticks = 0
    /\ chain = FALSE
    /\ nodeTaints = <<>>
    /\ probe = NoProbe
    /\ gw = [c \in Callers |-> IdleCaller]

NextGateways == \E c \in Callers : GwCall(c) \/ GwAttempt(c)

SpecGateways == InitGateways /\ [][NextGateways]_vars

---------------------------------------------------------------------------
(* SpecStrategies: a node process that runs any one of the three           *)
(* redirectors; the outermost frame of the stack tells which.              *)

Outermost == stack[Len(stack)]

InitStrategies == Init \/ InitMap \/ InitRuleset

NextStrategies ==
    \/ /\ Outermost \in {"Sync", "Sync.started", "Sync.select",
                         "Sync.applied", "Sync.close"}
       /\ Next
    \/ /\ Outermost \in {"RedirectMetadataEndpoint",
                         "RedirectMetadataEndpoint.go",
                         "WindowsRedirector.Sync",
                         "WindowsRedirector.Sync.select",
                         "WindowsRedirector.Sync.deleted",
                         "WindowsRedirector.Sync.applied"}
       /\ NextMap
    \/ /\ Outermost \in {"updateIPTableRules", "updateIPTableRules.first",
                         "updateIPTableRules.initialized",
                         "updateIPTableRules.select"}
       /\ NextRuleset

SpecStrategies == InitStrategies /\ [][NextStrategies]_vars

---------------------------------------------------------------------------
(* Notions of the specification. *)

\* the entries of a collection that are redirection policies for ip
EntriesFor(policies, ip) == CountOf(policies, ProxyPolicy(ip))

\* some entry of the collection carries ip as its target address, whether
\* or not the entry decodes
NamesTarget(policies, ip) ==
    \E i \in 1..Len(policies) : policies[i].ip = ip

\* the three conditions of a pod in scope
InScope(pod) ==
    /\ pod.NodeName = NodeName
    /\ pod.PodIP # ""
    /\ pod.PodIP # HostIP

OnThisNode(pod) == pod.NodeName = NodeName

\* the delays of a retry loop, in the order they are slept
Backoff == <<1, 2, 4, 8>>
Attempts == Len(Backoff) + 1

InStack(frame) == \E i \in 1..Len(stack) : stack[i] = frame

---------------------------------------------------------------------------
(* C1: two successful applies in a row for target address T leave the      *)
(* endpoint, whatever collection it started with, with exactly one entry   *)
(* for T.                                                                  *)
C1_TwoAppliesLeaveOneEntry ==
    hist.edStreak >= 2 => EntriesFor(hns["ep-1"].Policies, MetadataIP) = 1

---------------------------------------------------------------------------
(* C3 as stated: no apply and no remove call is ever issued, at startup,   *)
(* for an event, in a self-heal or at teardown, for a pod that is on       *)
(* another node, has an empty IP or has the host's IP.                     *)
C3_NoCallOutOfScope ==
    hist.op # Nil => InScope(hist.pod)

(* C3 as the loop behaves: no apply call is ever issued for a pod that is  *)
(* on another node, has an empty IP or has the host's IP; no remove call   *)
(* is ever issued for a pod of another node, and the teardown does issue   *)
(* remove calls for pods of this node whatever their IP.                   *)
C3_CallsInScope ==
    /\ hist.op = "apply" => InScope(hist.pod)
    /\ hist.op = "remove" => OnThisNode(hist.pod) /\ hist.phase = "teardown"

C3_Witness ==
    /\ hist.op = "remove"
    /\ hist.phase = "teardown"
    /\ ~InScope(hist.pod)
    /\ InStack("DeleteEndpointRoutePolicy")

---------------------------------------------------------------------------
(* C4: callHcnProxyAgent makes at most 5 raw attempts; it stops at the     *)
(* first one that succeeds and returns that attempt's response; it sleeps  *)
(* 1, 2, 4 and 8 time units before attempts 2, 3, 4 and 5; when all 5 fail *)
(* it returns the error of the 5th attempt, unchanged and never nil.       *)
C4_GatewayRetries ==
    /\ hist.gwAttempts <= Attempts
    /\ hist.gwSleeps = SubSeq(Backoff, 1, Len(hist.gwSleeps))
    /\ Top = "callHcnProxyAgent" =>
          /\ hist.gwAttempts < Attempts
          /\ hist.gwFails = hist.gwAttempts
          /\ Len(hist.gwSleeps) = hist.gwAttempts
    /\ gwRet.done =>
          IF gwRet.err = NoError
          THEN /\ hist.gwFails = hist.gwAttempts - 1
               /\ Len(hist.gwSleeps) = hist.gwAttempts - 1
               /\ hist.gwLast.err = NoError
               /\ gwRet.response = hist.gwLast.response
          ELSE /\ hist.gwAttempts = Attempts
               /\ hist.gwFails = Attempts
               /\ hist.gwSleeps = Backoff
               /\ gwRet.err = hist.gwLast.err
               /\ gwRet.err = BackendError(Attempts)

C4_Witness ==
    /\ gwRet.done
    /\ gwRet.err # NoError
    /\ hist.gwFails = Attempts
    /\ hist.gwSleeps = Backoff

---------------------------------------------------------------------------
(* C5: when every raw enumeration call fails, getEndpointByIP returns an   *)
(* InvalidOperation error after the 5 raw calls of its one                 *)
(* callHcnProxyAgent, without a retry of its own, and                      *)
(* ApplyEndpointRoutePolicy reports InvalidOperation.                      *)
AllEnumerationsFailed ==
    /\ req.Operation = Enumerate
    /\ hist.locEnums = 1
    /\ hist.gwAttempts > 0
    /\ hist.gwFails = hist.gwAttempts

C5_BackendDownIsInvalidOperation ==
    /\ (locRet.done /\ AllEnumerationsFailed) =>
          /\ locRet.errType = InvalidOperation
          /\ locRet.err = BackendError(Attempts)
          /\ hist.gwAttempts = Attempts
          /\ hist.locSleeps = <<>>
          /\ hist.locSeen = <<>>
    /\ (opRet.done /\ AllEnumerationsFailed) =>
          /\ opRet.t = InvalidOperation
          /\ opRet.err # NoErr
          /\ opRet.err.cause = BackendError(Attempts)
          /\ hist.gwAttempts = Attempts
          /\ hist.locSleeps = <<>>

C5_Witness ==
    /\ opRet.done
    /\ hist.op = "apply"
    /\ AllEnumerationsFailed
    /\ opRet.t = InvalidOperation

---------------------------------------------------------------------------
(* C6: when k enumerations (0 <= k <= 4) come back without an endpoint of  *)
(* the IP and enumeration k+1 comes back with one, getEndpointByIP returns *)
(* that endpoint right after enumeration k+1, with no error and no further *)
(* enumeration; it returns NotFound only after 5 enumerations without one. *)
C6_LocatorRetriesUntilVisible ==
    LET n == Len(hist.locSeen)
    IN  /\ n <= Attempts
        /\ \A i \in 1..(n - 1) : ~hist.locSeen[i]
        /\ (n > 0 /\ hist.locSeen[n]) =>
              /\ ~InStack("getEndpointByIP")
              /\ hist.locEnums = n
              /\ IF locRet.done
                 THEN /\ locRet.errType = Nil
                      /\ locRet.err = NoError
                      /\ locRet.endpoint.IPAddress = podIP
                 ELSE endpoint.IPAddress = podIP
        /\ (locRet.done /\ locRet.errType = NotFound) =>
              /\ n = Attempts
              /\ \A i \in 1..n : ~hist.locSeen[i]
        /\ (locRet.done /\ locRet.errType = Nil) =>
              n > 0 /\ hist.locSeen[n]

C6_Witness ==
    /\ locRet.done
    /\ locRet.errType = Nil
    /\ Len(hist.locSeen) = Attempts
    /\ hist.locSeen[Attempts]
    /\ locRet.endpoint.IPAddress = podIP

---------------------------------------------------------------------------
(* C7: ApplyEndpointRoutePolicy and DeleteEndpointRoutePolicy called with  *)
(* an empty pod IP return an error classified NotFound at once, having     *)
(* made no backend call.                                                   *)
C7_EmptyIPIsNotFound ==
    /\ (opRet.done /\ podIP = "") =>
          /\ opRet.t = NotFound
          /\ opRet.err # NoErr
          /\ opRet.err.text = MissingIP
          /\ hist.gwAttempts = 0
          /\ hist.locEnums = 0
          /\ req = NoRequest
    /\ (podIP = "" /\ hist.op # Nil) =>
          ~InStack("callHcnProxyAgent") /\ ~InStack("getEndpointByIP")

C7_Witness ==
    /\ opRet.done
    /\ podIP = ""
    /\ hist.op = "remove"
    /\ hist.calls = MaxCalls
    /\ opRet.t = NotFound

---------------------------------------------------------------------------
(* C8: when the enumeration finds the endpoint of the pod IP but every     *)
(* Modify request fails, ApplyEndpointRoutePolicy and                      *)
(* DeleteEndpointRoutePolicy return, after the 5 Modify attempts, a        *)
(* non-nil error classified UnKnown that carries the backend's error.      *)
AllModifiesFailed ==
    /\ req.Operation = Modify
    /\ hist.gwAttempts > 0
    /\ hist.gwFails = hist.gwAttempts

C8_ModifyFailureIsUnknown ==
    (opRet.done /\ AllModifiesFailed) =>
        /\ opRet.t = UnKnown
        /\ opRet.err # NoErr
        /\ opRet.err.cause = BackendError(Attempts)
        /\ hist.gwAttempts = Attempts
        /\ endpoint.IPAddress = podIP
        /\ hist.locSeen # <<>>

C8_Witness ==
    /\ opRet.done
    /\ AllModifiesFailed
    /\ hist.op = "apply"
    /\ opRet.t = UnKnown
    /\ hns[endpoint.Id].Policies = endpoint.Policies

---------------------------------------------------------------------------
(* C9: an event whose apply returns an error classified InvalidOperation   *)
(* or UnKnown triggers exactly one self-heal, which is one sleep of 10     *)
(* time units followed by one ApplyRoutePolicyForExistingPods; a failing   *)
(* apply inside the self-heal triggers no further self-heal; an event      *)
(* whose apply succeeds or is classified NotFound triggers none.           *)
C9_OneSelfHealPerFailedEvent ==
    hist.phase = "events" =>
        /\ hist.heals <= 1
        /\ hist.healRuns <= Len(hist.healSleeps)
        /\ Len(hist.healSleeps) <= hist.heals
        /\ \A i \in 1..Len(hist.healSleeps) : hist.healSleeps[i] = 10
        /\ hist.evDone =>
              (hist.heals = 1 <=>
                  /\ hist.evFailed
                  /\ hist.evType \in {InvalidOperation, UnKnown})
        /\ (hist.evDone /\ Top = "Sync.select") =>
              /\ hist.healRuns = hist.heals
              /\ Len(hist.healSleeps) = hist.heals
        /\ ~hist.evDone => hist.heals = 0
        /\ InStack("RoutePolicySelfHeal") => hist.heals = 1

C9_Witness ==
    /\ hist.phase = "events"
    /\ hist.heals = 1
    /\ hist.healRuns = 1
    /\ Top = "ApplyRoutePolicyForExistingPods.applied"
    /\ opRet.done
    /\ opRet.err # NoErr

---------------------------------------------------------------------------
(* C10: the teardown issues exactly one remove call for every listed pod   *)
(* of this node, pods with an empty IP or the host's IP included, and none *)
(* for other pods; after the last of them it waits 10 time units and       *)
(* exits, with code 1 exactly when the listing failed and with code 0      *)
(* otherwise, however many of the removes failed.                          *)
C10_TeardownRemovesAndExits ==
    /\ hist.tdRemoves = SelectSeq(hist.tdListed, OnThisNode)
    /\ hist.tdErrs <= Len(hist.tdRemoves)
    /\ hist.tdGrace # <<>> =>
          /\ hist.tdGrace = <<10>>
          /\ listPods = 0
          /\ hist.op = Nil
    /\ exited # NotExited =>
          /\ hist.tdStarted
          /\ hist.tdGrace = <<10>>
          /\ exited = (IF hist.tdListErr THEN 1 ELSE 0)

C10_Witness ==
    /\ exited = 0
    /\ Len(hist.tdRemoves) = MaxPods
    /\ hist.tdErrs >= 1
    /\ \E i \in 1..Len(hist.tdRemoves) : hist.tdRemoves[i].PodIP = ""
    /\ \E i \in 1..Len(hist.tdListed) : ~InScope(hist.tdListed[i])

---------------------------------------------------------------------------
(* C11: server.Initialized is false from the start of the process until    *)
(* the first full reconciliation (ApplyRoutePolicyForExistingPods over the *)
(* pod listing, or the first updateIPTableRulesInternal of the ruleset     *)
(* redirector) has returned; it is true before any pod event or tick is    *)
(* taken; and once true it is never set back to false.                     *)
FirstReconcileNotReturned ==
    \/ Top \in {"Sync", "RedirectMetadataEndpoint", "updateIPTableRules",
                "updateIPTableRules.first"}
    \/ /\ Len(stack) > 1
       /\ stack[Len(stack)] \in {"Sync.started", "RedirectMetadataEndpoint.go"}

EventTaken == nEvents > 0 \/ ticks > 0 \/ hist.rsDone > 0

C11_InitializedAfterFirstReconcile ==
    /\ [](FirstReconcileNotReturned => ~Initialized)
    /\ [](EventTaken => Initialized)
    /\ [](hist.phase # "startup" => Initialized)
    /\ [][Initialized => Initialized']_vars

C11_Witness ==
    /\ Initialized
    /\ nEvents > 0
    /\ InStack("ApplyEndpointRoutePolicy")
    /\ hist.phase = "events"

\* the request a handler has answered
Answered == probe.pc = "done"

(* C12: every answer of a health probe is one of three: status 200 with   *)
(* body "Active" when the flag was true and no check of the probe failed, *)
(* status 200 with body "Not Active" when the flag was not yet true and   *)
(* no check failed, status 500 when a check of the probe failed (the HNS  *)
(* request; the identity listing of the comparing handler); the minimal   *)
(* probe always answers 200.                                              *)
C12_ProbeOutcomes ==
    Answered =>
        /\ \/ /\ probe.status = 200 /\ probe.body = "Active"
              /\ probe.condition /\ ~probe.failed
           \/ /\ probe.status = 200 /\ probe.body = "Not Active"
              /\ ~probe.condition /\ ~probe.failed
           \/ probe.status = 500 /\ probe.failed
        /\ probe.body = "Active" => Initialized
        /\ probe.variant = "minimal" => probe.status = 200
        /\ probe.variant = "taint" => (probe.failed <=> probe.hcnErr)
        /\ probe.variant = "hcn" =>
               (probe.failed <=> probe.hcnErr \/ probe.idErr)

\* an answer of 500 for a failed identity listing alone, after the flag was set
C12_Witness ==
    /\ Answered /\ probe.variant = "hcn"
    /\ ~probe.hcnErr /\ probe.idErr /\ probe.status = 500
    /\ probe.body = "Active"

\* how many of the taints carry the probe's key
Markers(taints) == Len(taints) - Len(OthersOf(taints))

(* C13: over any sequence of tainting probes the taints of the node with  *)
(* another key than "hcnagentfailed" stay what the node was given, in the *)
(* order it was given them: a probe adds and removes only taints with its *)
(* own key.                                                               *)
C13_OtherTaintsKept ==
    /\ OthersOf(nodeTaints) = hist.prOthers
    /\ probe.pc = "update" /\ ~probe.getErr /\ ~probe.stale =>
           OthersOf(probe.taints) = hist.prOthers

\* a probe has removed its taint from between two others
C13_Witness ==
    /\ Answered /\ probe.variant = "taint"
    /\ ~probe.hcnErr /\ ~probe.getErr /\ ~probe.updErr
    /\ Len(probe.read) = 3 /\ probe.read[2] = HcnTaint
    /\ probe.read[1] # probe.read[3]
    /\ nodeTaints = <<probe.read[1], probe.read[3]>>

\* a signal or the shutdown of the main routine awaits the loop
TerminationPending ==
    hist.phase = "events" /\ (signalChan \/ mainRoutineDone)

(* C14: in the per-pod endpoint strategy, once a termination signal or    *)
(* the shutdown of the main routine awaits the loop in its event phase,   *)
(* the loop eventually runs the teardown and the process then exits; both *)
(* inputs enter the same teardown; no apply is called once the teardown   *)
(* has begun.                                                             *)
C14_SignalLeadsToTeardownAndExit ==
    /\ TerminationPending ~> (exited # NotExited)
    /\ [](exited # NotExited => hist.phase = "teardown" /\ hist.tdStarted)
    /\ [][SyncSignal \/ SyncMainRoutineDone =>
            /\ stack' = <<"DeleteRoutePolicyForExistingPods", "Sync.close">>
            /\ hist'.phase = "teardown"]_vars
    /\ [](hist.phase = "teardown" =>
            /\ ~InStack("ApplyEndpointRoutePolicy")
            /\ ~InStack("ApplyRoutePolicyForExistingPods")
            /\ ~InStack("ApplyRoutePolicyForExistingPods.range")
            /\ ~InStack("ApplyRoutePolicyForExistingPods.applied")
            /\ hist.op # "apply")
    /\ [][hist.phase = "teardown" => hist'.phase = "teardown"]_vars

\* the process has exited after a teardown that a signal started while an
\* event had been handled
C14_Witness ==
    /\ exited # NotExited
    /\ hist.tdStarted
    /\ nEvents > 0
    /\ ~mainRoutineDone

\* the entry decodes to a redirection policy whose own target address is ip
IsFor(p, ip) == p.ok /\ p.ip = ip

\* the entries of a collection that are not for ip, in their order
NotFor(policies, ip) == SelectSeq(policies, LAMBDA p : ~IsFor(p, ip))

(* C15 as stated: for every policy collection, the removal scan for T     *)
(* returns the entries whose own decoded target address is not T, in      *)
(* their original order (seen in what a remove submits: the scan of the   *)
(* collection it read).                                                   *)
C15_ScanKeepsExactlyTheOthers ==
    hist.edOp = "remove" =>
        hist.edSent = NotFor(hist.edRead, MetadataIP)

\* the collection holds at most one redirection policy per target address
OnePerTarget(policies) == \A a \in Addrs : EntriesFor(policies, a) <= 1

(* C16 as stated: an apply or a remove of the loop that finds an endpoint *)
(* with at most one redirection policy per target address leaves it with  *)
(* at most one per target address, so that from a backend of such         *)
(* endpoints every sequence of applies and removes keeps them so.         *)
C16_OnePerTargetKept ==
    (hist.edOp # Nil /\ OnePerTarget(hist.edRead))
        => OnePerTarget(hns["ep-1"].Policies)

\* getEndpointByIP has used up its enumerations without seeing the endpoint
LocatorExhausted ==
    /\ podIP # ""
    /\ Len(hist.locSeen) = Attempts
    /\ \A i \in 1..Attempts : ~hist.locSeen[i]

(* C17 as stated: when getEndpointByIP has used up its retries for a      *)
(* non-empty pod IP and returned NotFound, ApplyEndpointRoutePolicy and   *)
(* DeleteEndpointRoutePolicy return an error classified NotFound, not     *)
(* success.                                                               *)
C17_NotFoundReachesTheLoop ==
    (opRet.done /\ LocatorExhausted) =>
        /\ opRet.err # NoErr
        /\ opRet.t = NotFound

\* a tainting probe has been answered and every node read and update of the
\* probes so far succeeded
TaintProbeAnswered ==
    Answered /\ probe.variant = "taint" /\ hist.prAllOk

(* C18 as stated: after any sequence of tainting probes whose node reads  *)
(* and updates succeed, the node carries exactly one taint with the       *)
(* probe's key if the HNS request of the most recent probe failed and     *)
(* none if it succeeded; failing probes in a row never leave more than    *)
(* one.                                                                   *)
C18_OneMarkerIffLastProbeFailed ==
    TaintProbeAnswered =>
        Markers(nodeTaints) = IF probe.hcnErr THEN 1 ELSE 0

(* C19 as stated: in the map-based redirector, whenever the loop waits    *)
(* for its next input, podMap holds an entry for a pod only if a policy   *)
(* was applied with success for that pod with that IP; and the loop       *)
(* removes an entry, with a remove call for the stored IP, only for a     *)
(* deletion event of that pod, never for an update of a running pod.      *)
C19_MapHoldsAppliedPods ==
    /\ Top = "WindowsRedirector.Sync.select" =>
           \A uid \in DOMAIN podMap :
               [UID |-> uid, IP |-> podMap[uid]] \in hist.mapApplied
    /\ InStack("WindowsRedirector.Sync.deleted") => hist.pod.deleted

\* a run of ApplyRoutePolicyForExistingPods is under way
InReconcile ==
    \/ InStack("ApplyRoutePolicyForExistingPods")
    \/ InStack("ApplyRoutePolicyForExistingPods.range")
    \/ InStack("ApplyRoutePolicyForExistingPods.applied")

(* C20: a run of ApplyRoutePolicyForExistingPods calls apply exactly once *)
(* for every listed pod that passes the three tests, whatever the applies *)
(* for earlier pods returned: it visits the pods one by one, goes on      *)
(* after an apply has returned, and returns only when no listed pod is    *)
(* left; it calls no apply when the listing failed; it never exits the    *)
(* process.                                                               *)
C20_ReconcileAllVisitsEveryPod ==
    /\ [](InReconcile =>
            /\ exited = NotExited
            /\ hist.raApplies = hist.raSeen
            /\ hist.raErrs <= hist.raApplies
            /\ hist.raListErr => (hist.raApplies = 0 /\ listPods = 0))
    /\ [][(Top = "ApplyRoutePolicyForExistingPods.applied" /\ stack' # stack)
            => /\ Head(stack') = "ApplyRoutePolicyForExistingPods.range"
               /\ listPods' = listPods]_vars
    /\ [][(Top = "ApplyRoutePolicyForExistingPods.range" /\ stack' # stack)
            => \/ listPods = 0 /\ stack' = Tail(stack)
               \/ /\ listPods' = listPods - 1
                  /\ Head(stack') = "ApplyEndpointRoutePolicy"
                  /\ hist'.raApplies = hist.raApplies + 1
                  /\ PassesTests(hist'.pod)]_vars
    /\ [][(Top = "ApplyRoutePolicyForExistingPods.range" /\ stack' = stack)
            => (listPods' = listPods \/ listPods' = listPods - 1)]_vars
    /\ [][InReconcile => exited' = NotExited]_vars

\* a run has called its second apply after its first one failed
C20_Witness ==
    /\ Top = "ApplyRoutePolicyForExistingPods.range"
    /\ listPods = 0
    /\ hist.raApplies = MaxPods
    /\ hist.raErrs >= 1
    /\ ~hist.raListErr

\* how many frames of the stack are calls of an operation or of the gateway
RECURSIVE FramesIn(_, _)
FramesIn(st, names) ==
    IF st = <<>> THEN 0
    ELSE (IF Head(st) \in names THEN 1 ELSE 0) + FramesIn(Tail(st), names)

\* the loop waits in its select with nothing else under way
AtSelect == stack = <<"Sync.select">>

(* C21: the Sync loop never has two of its operations under way: an       *)
(* event's apply, its retries and the self-heal it starts are over before *)
(* the next event or a signal is taken, so a signal that arrives during a *)
(* retry sleep or a self-heal is taken only then.                         *)
C21_OneOperationAtATime ==
    /\ [](/\ FramesIn(stack, {"ApplyEndpointRoutePolicy",
                              "DeleteEndpointRoutePolicy"}) <= 1
          /\ FramesIn(stack, {"callHcnProxyAgent"}) <= 1
          /\ FramesIn(stack, {"getEndpointByIP"}) <= 1)
    /\ [][nEvents' # nEvents => AtSelect]_vars
    /\ [][(signalChan /\ ~signalChan') => AtSelect]_vars
    /\ [][(hist.phase = "events" /\ hist'.phase = "teardown") => AtSelect]_vars
    /\ [][(hist.phase = "events" /\ ~AtSelect) =>
            (hist'.phase = "events" /\ exited' = NotExited)]_vars

\* a signal waits while a self-heal sleeps between two attempts of a request
C21_Witness ==
    /\ signalChan
    /\ hist.phase = "events"
    /\ hist.heals >= 1
    /\ Top = "callHcnProxyAgent"
    /\ Len(hist.gwSleeps) >= 1

\* the first n delays of the backoff
FirstDelays(n) == SubSeq(Backoff, 1, n)

(* C22: when two callers use callHcnProxyAgent at once, under every        *)
(* interleaving each call has its own attempt counter and delay: it gives  *)
(* up only after 5 failed attempts of its own, having slept 1, 2, 4, 8,    *)
(* whatever the attempts of the other call did.                            *)
C22_RetryStateIsPerCall ==
    \A c \in Callers :
        gw[c].pc # "idle" =>
            /\ gw[c].attempts <= Attempts
            /\ gw[c].sleeps = FirstDelays(Len(gw[c].sleeps))
            /\ gw[c].retryCount = Len(gw[c].sleeps) + 1
            /\ gw[c].pc = "calling" => gw[c].attempts = Len(gw[c].sleeps)
            /\ (gw[c].pc = "returned" /\ gw[c].err # NoError) =>
                   /\ gw[c].attempts = Attempts
                   /\ gw[c].sleeps = Backoff
                   /\ gw[c].err = BackendError(Attempts)
            /\ (gw[c].pc = "returned" /\ gw[c].err = NoError) =>
                   gw[c].attempts = Len(gw[c].sleeps) + 1

\* one call has used its whole budget while the other, begun after three of
\* its failures, is at its second attempt
C22_Witness ==
    /\ gw["loop"].pc = "returned"
    /\ gw["loop"].err # NoError
    /\ gw["loop"].attempts = Attempts
    /\ gw["reporter"].pc = "calling"
    /\ gw["reporter"].sleeps = <<1>>

\* a step of the comparing handler
ProbeStepTaken == probe' # probe

(* C23: whatever the loop does between its steps, a step of the comparing  *)
(* health probe leaves the initialized flag, the metadata address, the pod *)
(* map and the backend's endpoints as they were, and the only request it   *)
(* sends is an Enumerate: a mismatch it finds is reported, not repaired.   *)
C23_ProbeChangesNothing ==
    /\ [][ProbeStepTaken =>
            /\ Initialized' = Initialized
            /\ MetadataIP' = MetadataIP
            /\ podMap' = podMap
            /\ hns' = hns
            /\ stack' = stack]_vars
    /\ [](probe.pc # "idle" => probe.request.Operation = Enumerate)

\* a probe has reported a mismatch and answered, and the loop changed the
\* backend while it ran
C23_Witness ==
    /\ probe.pc = "done"
    /\ probe.reported # <<>>
    /\ probe.response.valid
    /\ probe.response.endpoints # EndpointsFrom(hns, 1)
    /\ \E i \in 1..Len(probe.response.endpoints) :
          /\ probe.response.endpoints[i].IPAddress = probe.reported[1]
          /\ hns[probe.response.endpoints[i].Id].Policies
                 = probe.response.endpoints[i].Policies

\* a handler is between taking a request and writing the response
ProbeInProgress == probe.pc \notin {"idle", "done"}

(* C24: a health probe that was taken is always answered, with status 200  *)
(* or 500 and a body, whatever failed inside it: the enumeration, the      *)
(* decoding of its payload, the pod listing, the identity listing, the     *)
(* read of the node or its update.  A failure shows at most in the status. *)
C24_ProbeAlwaysAnswers ==
    /\ [](probe.pc \in {"idle", "done", "compare", "identities", "get",
                        "update"})
    /\ [](probe.pc = "done" =>
             /\ probe.status \in {200, 500}
             /\ probe.body \in {"Active", "Not Active"}
             /\ (probe.variant # "minimal" /\ probe.hcnErr) =>
                    probe.status = 500)
    /\ ProbeInProgress ~> probe.pc = "done"

\* a tainting probe answered although the enumeration, the read of the node
\* and its update all failed
C24_Witness ==
    /\ probe.pc = "done"
    /\ probe.variant = "taint"
    /\ probe.hcnErr /\ probe.getErr /\ probe.updErr
    /\ probe.status = 500

\* the comparing handler is past its comparison
Compared == probe.pc \in {"identities", "done"} /\ probe.variant = "hcn"

\* the IPs of the pods of a listing, in its order
IPsOf(pods) == [i \in 1..Len(pods) |-> pods[i].PodIP]

\* some enumerated endpoint has the IP
Enumerated(endpoints, ip) ==
    \E i \in 1..Len(endpoints) : endpoints[i].IPAddress = ip

\* no enumerated endpoint with the IP holds an entry for the address
LacksEntry(endpoints, ip, address) ==
    \A i \in 1..Len(endpoints) :
        endpoints[i].IPAddress = ip =>
            \A j \in 1..Len(endpoints[i].Policies) :
                endpoints[i].Policies[j].ip # address

InLocator == FramesIn(stack, {"getEndpointByIP"}) = 1

\* the most raw requests a getEndpointByIP can have sent
MaxRawCalls == Attempts * Attempts

(* C26: every getEndpointByIP returns, whatever the backend answers.  It   *)
(* calls callHcnProxyAgent at most 5 times, each call sending at most 5    *)
(* raw requests (25 in all), sleeps 1, 2, 4, 8 between the enumerations    *)
(* that showed no endpoint of the IP, and returns NotFound only after 5    *)
(* enumerations that succeeded and showed none.                            *)
C26_LocatorTerminates ==
    /\ [](InLocator =>
             /\ hist.locEnums \in 1..Attempts
             /\ hist.gwAttempts <= Attempts
             /\ (hist.locEnums - 1) * Attempts + hist.gwAttempts
                    <= MaxRawCalls
             /\ hist.locSleeps = FirstDelays(hist.locEnums - 1)
             /\ Len(hist.locSeen) \in {hist.locEnums - 1, hist.locEnums}
             /\ \A i \in 1..Len(hist.locSeen) :
                    i < hist.locEnums => ~hist.locSeen[i])
    /\ []((locRet.done /\ locRet.errType = NotFound) =>
             /\ hist.locEnums = Attempts
             /\ hist.locSleeps = Backoff
             /\ hist.locSeen = [i \in 1..Attempts |-> FALSE])
    /\ InLocator ~> ~InLocator

\* NotFound after five enumerations, the last of which needed all five raw
\* requests of its callHcnProxyAgent
C26_Witness ==
    /\ locRet.done
    /\ locRet.errType = NotFound
    /\ hist.locEnums = Attempts
    /\ hist.gwAttempts = Attempts
    /\ hist.gwSleeps = Backoff
    /\ hist.locSleeps = Backoff

\* updateIPTableRules has taken a termination signal or the message of the
\* main routine's shutdown
ToldToStop == hist.phase = "teardown" \/ hist.rsDone >= 1

(* C27 as stated: updateIPTableRules asserts the rule-set once at start    *)
(* and once on every tick; once it has taken a termination signal or the   *)
(* upstream shutdown message it is in handleTermination or has exited,     *)
(* never back in its loop, and it exits after DeleteCustomChain and one    *)
(* wait of 10, with code 0 iff the removal succeeded.                      *)
C27_RulesetStopsOnEitherSignal ==
    /\ Top = "updateIPTableRules.select" =>
          hist.rsAsserts = 1 + hist.rsTicks
    /\ ToldToStop =>
          Top \in {"handleTermination", "handleTermination.sleep",
                   "handleTermination.exit", "exited"}
    /\ (ToldToStop /\ exited # NotExited) =>
          /\ hist.rsDeleteCalled
          /\ hist.rsGrace = <<terminationSleep>>
          /\ exited = (IF hist.rsDeleteErr THEN 1 ELSE 0)

=============================================================================
